---- MODULE Spec2Model ----
(***************************************************************************)
(* A model of DOT's tuning control loop: the knob-set controller           *)
(* (tuner/knob_selection.py), the bandits (tuner/TwoActionLRT.py,          *)
(* TwoActionTS.py, contextualTS.py), and the round loop of tuner/main.py.  *)
(*                                                                         *)
(* Knob names are the integers 1..n in dictionary order.  Python's None is *)
(* None (-1) where the value is an action or a context.  Python flags are  *)
(* 0 or 1.  Normalised values and bandit rewards are rationals kept as     *)
(* integer numerators over GridDen and RewardDen.                          *)
(***************************************************************************)
EXTENDS Integers, Sequences, FiniteSets, TLC

VARIABLES
    pc,               \* where the modelled run (or unit call) stands
    flags,            \* main: the flags tuple read from the config
    is_random,        \* main: config_data["is_random"]
    total_iterations, \* main: bayes_opt_settings.n_calls
    overall_iters,    \* main: cumulative calls handed to the optimizer
    current_knobs,    \* main: the tuned set, an ordered list of knob names
    frozen_values,    \* main: knob name -> frozen real value
    updated_knobs_num,\* main: knobs added by the last cycle
    x0,               \* main: warm-start history (x0, y0), summarised
    csv,              \* the persisted round log, summarised
    round,            \* main: initial_pts, n_calls and the round's observations
    selector,         \* main: IncrementalSupportMask.selected, or None (the whole
                      \* instance when the selector is called on its own)
    bandit,           \* the bandit instance
    best_result,      \* main: (best_tps, best config)
    cyc,              \* record of the last feature_selection_cycle
    utk,              \* record of the last update_tuned_knobs call
    bop,              \* record of the last bandit call made on its own
    nzr,              \* record of the last Normalizer call made on its own
    driver,           \* MySQLDriver: best_total_time, best_olap_times, budget_allocator
    olp,              \* record of the last execute_olap call
    evl,              \* record of the evaluations of a round run on its own
    lod,              \* record of the last load_intermediate_data call made on its own
    ksl               \* record of the calls of a knob selector made on its own

vars == <<pc, flags, is_random, total_iterations, overall_iters, current_knobs,
          frozen_values, updated_knobs_num, x0, csv, round, selector, bandit,
          best_result, cyc, utk, bop, nzr, driver, olp, evl, lod, ksl>>

(***************************************************************************)
(* Bounds of the model.                                                    *)
(***************************************************************************)
NKnobs == 3          \* knobs in the full dictionary of the exhaustive runs

RewardHalf == 1      \* the numerator of a reward of 1/2: rewards are k/(2*RewardHalf)

MaxBanditOps == 5    \* select/update calls made on a bandit on its own

MaxTotal == 20       \* the largest total budget (bayes_opt_settings.n_calls)

PriorRows == 2       \* rows of the round log a resumed run starts from

MaxFlags == 2        \* flags set together in a configuration

BigCurrent == 10     \* tuned knobs of the large update_tuned_knobs calls

BigKeys == 16        \* knobs of the larger dictionary of those calls

MantissaBits == 8    \* significant bits of a float (53 in the program)

None == -1            \* Python's None; as a bandit_choice, the -1 of main.py line 192

(***************************************************************************)
(* Helpers on sequences and sets.                                          *)
(***************************************************************************)
Min(a, b) == IF a < b THEN a ELSE b

Max(a, b) == IF a > b THEN a ELSE b

Range(s) == {s[i] : i \in DOMAIN s}

\* s[:n] of Python, n >= 0
Take(s, n) == SubSeq(s, 1, Min(n, Len(s)))

\* the injective sequences of length n over S (random.sample's outcomes)
InjSeqs(S, n) == {s \in [1..n -> S] : \A i, j \in 1..n : i # j => s[i] # s[j]}

\* list(full_knob_dict.keys()) for a dictionary of n knobs
KeysOf(n) == [i \in 1..n |-> i]

\* python truthiness of a flag
Truthy(x) == x # 0

(***************************************************************************)
(* tuner/knob_selection.py : update_tuned_knobs                            *)
(***************************************************************************)

\* selection_mask.count(True)
CountTrue(mask) == Cardinality({i \in DOMAIN mask : mask[i]})

\* [k for i, k in enumerate(current) if selection_mask[i] and i < len(current)]
RECURSIVE RetainFrom(_, _, _)
RetainFrom(current, mask, i) ==
    IF i > Len(current) THEN <<>>
    ELSE (IF mask[i] THEN <<current[i]>> ELSE <<>>) \o RetainFrom(current, mask, i + 1)

Retained(current, mask) == RetainFrom(current, mask, 1)

\* a faulty variant of the default branch: n * 1.5 rounded up instead of down
DefaultTargetCeil(n, mask) ==
    IF CountTrue(mask) = Len(mask) THEN (n * 3 + 1) \div 2
    ELSE CountTrue(mask) + 1

\* the default branch, lines 80-86
DefaultTarget(n, mask) ==
    IF CountTrue(mask) = Len(mask) THEN (n * 3) \div 2   \* math.floor(n * 1.5)
    ELSE CountTrue(mask) + 1

\* a faulty variant of the bandit branches: the target counted from the size of
\* the tuned set (as the message of line 64 prints it) whatever the mask says
BanditTargetFromCurrent(mask, bandit_choice) == Len(mask) + 5 * bandit_choice

\* the bandit branches, lines 62-74
BanditTarget(mask, bandit_choice) == CountTrue(mask) + 5 * bandit_choice

\* element_to_tune after the policy chain, lines 54-86; f holds the keyword flags
ElementToTune(n, mask, f, bandit_choice) ==
    IF f.is_incremental = 1 \/ f.is_SE = 1 THEN CountTrue(mask)
    ELSE IF f.is_bandit = 1 THEN BanditTarget(mask, bandit_choice)
    ELSE IF f.is_TS = 1 \/ f.is_LRT = 1 THEN BanditTarget(mask, bandit_choice)
    ELSE IF Truthy(f.is_pure_incremental) THEN CountTrue(mask) + 5
    ELSE DefaultTarget(n, mask)

\* a faulty variant of line 103: the filter on used left out
AvailableUnfiltered(keys, used) == SelectSeq(keys, LAMBDA k : k \in used \/ k \notin used)

\* available = [k for k in keys if k not in used], line 103
Available(keys, used) == SelectSeq(keys, LAMBDA k : k \notin used)

\* updated on the deterministic path, lines 53-57 and 101-107
UpdatedFlag(n, mask, needed, to_add) ==
    IF needed > 0 THEN to_add # <<>> ELSE n > CountTrue(mask)

\* updated on the random path, lines 53-57 and 90-99
UpdatedFlagRandom(n, mask, added) ==
    (n > CountTrue(mask)) \/ added # <<>>

\* The results update_tuned_knobs can return: one on the deterministic path, one
\* per order random.sample can produce on the random path.
UpdateTunedKnobs(current, keys, mask, frozen_keys, random_flag, f, bandit_choice) ==
    LET used           == Range(current) \cup frozen_keys
        element_to_tune == ElementToTune(Len(current), mask, f, bandit_choice)
        new_list       == Retained(current, mask)
        needed         == element_to_tune - Len(new_list)
        unused         == Range(keys) \ used
    IN  IF Truthy(random_flag)
        THEN LET n_add == Min(Max(needed, 0), Cardinality(unused))
             IN  { [new_list |-> new_list \o added,
                    updated  |-> UpdatedFlagRandom(Len(current), mask, added)]
                   : added \in InjSeqs(unused, n_add) }
        ELSE LET to_add == IF needed > 0 THEN Take(Available(keys, used), needed)
                           ELSE <<>>
             IN  { [new_list |-> new_list \o to_add,
                    updated  |-> UpdatedFlag(Len(current), mask, needed, to_add)] }

(***************************************************************************)
(* The bandits.  Accumulators and rewards are numerators over RewardDen;   *)
(* tuples are indexed by action + 1 (and context + 1).                     *)
(***************************************************************************)
RewardDen == 2 * RewardHalf

\* a / b > c / d for b # 0 and d > 0, in exact arithmetic
RatGreater(a, b, c, d) == IF b > 0 THEN a * d > c * b ELSE a * d < c * b

\* a / b < c / d for b # 0 and d > 0, in exact arithmetic
RatLess(a, b, c, d) == IF b > 0 THEN a * d < c * b ELSE a * d > c * b

\* TwoActionLRT.__init__
NewTwoActionLRT ==
    [kind |-> "LRT", success |-> <<RewardDen, RewardDen>>,
     failure |-> <<RewardDen, RewardDen>>, last_action |-> None]

\* TwoActionTS.__init__
NewTwoActionTS ==
    [kind |-> "TS", alpha |-> <<RewardDen, RewardDen>>,
     beta |-> <<RewardDen, RewardDen>>, last_action |-> None]

\* ContextualTS.__init__
NewContextualTS ==
    [kind |-> "CTS",
     alpha |-> <<<<RewardDen, RewardDen>>, <<RewardDen, RewardDen>>>>,
     beta  |-> <<<<RewardDen, RewardDen>>, <<RewardDen, RewardDen>>>>,
     last_context |-> None, last_action |-> None]

NoBandit == [kind |-> "none"]

\* a faulty variant of TwoActionLRT.select: equal rates decided for action 1
LRTActionTiesUp(b) ==
    IF b.success[2] * (b.success[1] + b.failure[1])
         >= b.success[1] * (b.success[2] + b.failure[2])
    THEN 1 ELSE 0

\* TwoActionLRT.select: 1 iff log((rate1 + eps) / (rate0 + eps)) > 0, that is iff
\* success[1]/(success[1]+failure[1]) > success[0]/(success[0]+failure[0])
LRTAction(b) ==
    IF RatGreater(b.success[2], b.success[2] + b.failure[2],
                  b.success[1], b.success[1] + b.failure[1])
    THEN 1 ELSE 0

LRTSelect(b) ==
    { [bandit |-> [b EXCEPT !.last_action = LRTAction(b)], action |-> LRTAction(b)] }

\* TwoActionTS.select: either branch can return either action
TSSelect(b) ==
    { [bandit |-> [b EXCEPT !.last_action = a], action |-> a] : a \in {0, 1} }

\* ContextualTS.select(context)
CTSSelect(b, context) ==
    { [bandit |-> [b EXCEPT !.last_context = context, !.last_action = a], action |-> a]
      : a \in {0, 1} }

\* a faulty variant of TwoActionLRT.update: the test of _last_action left out,
\* the reward going to action 0 when no action is pending
LRTUpdateUnguarded(b, reward) ==
    [b EXCEPT !.success[Max(b.last_action, 0) + 1] = @ + reward,
              !.failure[Max(b.last_action, 0) + 1] = @ + (RewardDen - reward),
              !.last_action = None]

\* TwoActionLRT.update
LRTUpdate(b, reward) ==
    IF b.last_action = None THEN b
    ELSE [b EXCEPT !.success[b.last_action + 1] = @ + reward,
                   !.failure[b.last_action + 1] = @ + (RewardDen - reward),
                   !.last_action = None]

\* TwoActionTS.update
TSUpdate(b, reward) ==
    IF b.last_action = None THEN b
    ELSE [b EXCEPT !.alpha[b.last_action + 1] = @ + reward,
                   !.beta[b.last_action + 1] = @ + (RewardDen - reward),
                   !.last_action = None]

\* a faulty variant of ContextualTS.update: the reward credited to the action
\* under both contexts
CTSUpdateBothContexts(b, reward) ==
    IF b.last_context = None \/ b.last_action = None THEN b
    ELSE [b EXCEPT !.alpha = [c \in 1..2 |-> [@[c] EXCEPT ![b.last_action + 1] = @ + reward]],
                   !.beta  = [c \in 1..2 |->
                                [@[c] EXCEPT ![b.last_action + 1] = @ + (RewardDen - reward)]],
                   !.last_context = None,
                   !.last_action = None]

\* ContextualTS.update
CTSUpdate(b, reward) ==
    IF b.last_context = None \/ b.last_action = None THEN b
    ELSE [b EXCEPT !.alpha[b.last_context + 1][b.last_action + 1] = @ + reward,
                   !.beta[b.last_context + 1][b.last_action + 1] = @ + (RewardDen - reward),
                   !.last_context = None,
                   !.last_action = None]

\* bandit.update(reward) on whichever class the instance has
BanditUpdate(b, reward) ==
    CASE b.kind = "LRT" -> LRTUpdate(b, reward)
      [] b.kind = "TS"  -> TSUpdate(b, reward)
      [] b.kind = "CTS" -> CTSUpdate(b, reward)

\* whether a decision is pending, as each update tests it
Pending(b) ==
    CASE b.kind = "CTS"  -> ~(b.last_context = None \/ b.last_action = None)
      [] b.kind = "none" -> FALSE
      [] OTHER           -> b.last_action # None

\* TwoActionLRT.reward: 1.0 iff improvement_per_step > threshold (0.001)
LRTReward(cur_perf, best_perf, n_calls) ==
    LET den == IF best_perf # 0 THEN best_perf ELSE 1
    IN  IF RatGreater(cur_perf - best_perf, den * n_calls, 1, 1000)
        THEN RewardDen ELSE 0

\* TwoActionTS.reward and ContextualTS.reward, the same text.  The sigmoid
\* 1/(1+exp(-500*(ips-0.001))) is kept by the side of its centre it falls on
\* (0 below, 1/2 at the centre, 1 above); math.exp raises OverflowError when its
\* argument passes 709.78, that is when ips < 0.001 - 1.4196.
TSReward(cur_perf, best_perf, n_calls) ==
    LET num == IF best_perf # 0 THEN cur_perf - best_perf ELSE 1
        den == (IF best_perf # 0 THEN best_perf ELSE 1) * n_calls
    IN  IF RatLess(num, den, -14186, 10000)
        THEN [err |-> TRUE, value |-> 0]
        ELSE [err |-> FALSE,
              value |-> IF RatGreater(num, den, 1, 1000) THEN RewardDen
                        ELSE IF RatLess(num, den, 1, 1000) THEN 0
                        ELSE RewardHalf]

\* bandit.reward(...) on whichever class the instance has
BanditReward(b, cur_perf, best_perf, n_calls) ==
    IF b.kind = "LRT"
    THEN [err |-> FALSE, value |-> LRTReward(cur_perf, best_perf, n_calls)]
    ELSE TSReward(cur_perf, best_perf, n_calls)

(***************************************************************************)
(* The knob dictionary of the modelled configuration: odd knobs are        *)
(* integer knobs over [0, 2] with default 1, even knobs are boolean knobs  *)
(* whose two values OFF and ON are written 0 and 1.                        *)
(***************************************************************************)
full_knob_dict(k) ==
    IF k % 2 = 1 THEN [kind |-> "integer", min |-> 0, max |-> 2, default |-> 1]
    ELSE [kind |-> "boolean", min |-> 0, max |-> 1, default |-> 0]

\* normalised values are numerators over GridDen: quarters, so that an integer
\* knob's values and the points half-way between them are on the grid
GridDen == 2 * (full_knob_dict(1).max - full_knob_dict(1).min)

\* round() of Python on num/den, den > 0: to nearest, ties to even
RoundHalfEven(num, den) ==
    LET q == num \div den
        r == num % den
    IN  IF 2 * r < den THEN q
        ELSE IF 2 * r > den THEN q + 1
        ELSE IF q % 2 = 0 THEN q ELSE q + 1

(***************************************************************************)
(* Python floats.  A float is a rational [n, d], d a power of two, with at *)
(* most MantissaBits significant bits (53 in the program); every operation *)
(* rounds its exact result to the nearest float, ties to even.  Exponents  *)
(* are unbounded.                                                          *)
(***************************************************************************)
Rat(n, d) == [n |-> n, d |-> d]

RECURSIVE Pow2(_)
Pow2(k) == IF k <= 0 THEN 1 ELSE 2 * Pow2(k - 1)

\* 2^MantissaBits: a float's mantissa m satisfies 2^(MantissaBits - 1) <= m < it
MantissaTop == Pow2(MantissaBits)

\* the least power of two p with n / d < 2^MantissaBits * p, from p on, for n >= 0
RECURSIVE ShiftDown(_, _, _)
ShiftDown(n, d, p) ==
    IF n \div (d * p) < MantissaTop THEN p ELSE ShiftDown(n, d, 2 * p)

\* the least power of two p with n * p / d >= 2^(MantissaBits - 1), from p on,
\* for n > 0
RECURSIVE ShiftUp(_, _, _)
ShiftUp(n, d, p) ==
    IF 2 * ((n * p) \div d) >= MantissaTop THEN p ELSE ShiftUp(n, d, 2 * p)

\* the float nearest to n / d, for n >= 0 and d > 0
FlRoundPos(n, d) ==
    IF n = 0 THEN Rat(0, 1)
    ELSE IF n \div d >= MantissaTop
    THEN LET p == ShiftDown(n, d, 2) IN Rat(RoundHalfEven(n, d * p) * p, 1)
    ELSE LET p == ShiftUp(n, d, 1) IN Rat(RoundHalfEven(n * p, d), p)

\* the float nearest to n / d, d > 0
FlRound(n, d) ==
    IF n >= 0 THEN FlRoundPos(n, d)
    ELSE LET r == FlRoundPos(0 - n, d) IN Rat(0 - r.n, r.d)

\* float(i) of an int
FlOfInt(i) == FlRound(i, 1)

\* x * y, x + y on floats
FlMul(x, y) == FlRound(x.n * y.n, x.d * y.d)

FlAdd(x, y) == FlRound(x.n * y.d + y.n * x.d, x.d * y.d)

\* a / b of two ints, b # 0: the quotient rounded once
FlDivInt(a, b) == IF b > 0 THEN FlRound(a, b) ELSE FlRound(0 - a, 0 - b)

\* denormalize with the boolean threshold taken at or below 0.5
denormalize_valueHalfIsMin(d, norm_val) ==
    IF d.kind = "integer"
    THEN LET x          == FlAdd(FlOfInt(d.min), FlMul(norm_val, FlOfInt(d.max - d.min)))
             real_value == RoundHalfEven(x.n, x.d)
         IN  [err |-> "", val |-> Max(d.min, Min(d.max, real_value))]
    ELSE [err |-> "", val |-> IF 2 * norm_val.n <= norm_val.d THEN d.min ELSE d.max]

\* Normalizer.denormalize, the body of the loop for a knob defined by d and a
\* float norm_val: the error raised, or the value
denormalize_value(d, norm_val) ==
    IF d.kind = "integer"
    THEN LET x          == FlAdd(FlOfInt(d.min), FlMul(norm_val, FlOfInt(d.max - d.min)))
             real_value == RoundHalfEven(x.n, x.d)
         IN  [err |-> "",
              val |-> IF real_value >= d.max THEN d.max
                      ELSE IF real_value <= d.min THEN d.min
                      ELSE real_value]
    ELSE IF d.kind = "boolean"
    THEN [err |-> "", val |-> IF 2 * norm_val.n < norm_val.d THEN d.min ELSE d.max]
    ELSE [err |-> "NotImplementedError", val |-> 0]

\* normalize taking every boolean value other than min for max
normalize_valueCoerces(d, real_value) ==
    IF d.kind = "integer"
    THEN IF d.max = d.min THEN [err |-> "ValueError", val |-> Rat(0, 1)]
         ELSE [err |-> "", val |-> FlDivInt(real_value - d.min, d.max - d.min)]
    ELSE [err |-> "", val |-> IF real_value = d.min THEN Rat(0, 1) ELSE Rat(1, 1)]

\* Normalizer.normalize, the body of the loop for a knob defined by d that the
\* config holds with real_value: the error raised, or the float
normalize_value(d, real_value) ==
    IF d.kind = "integer"
    THEN IF d.max = d.min THEN [err |-> "ValueError", val |-> Rat(0, 1)]
         ELSE [err |-> "", val |-> FlDivInt(real_value - d.min, d.max - d.min)]
    ELSE IF d.kind = "boolean"
    THEN IF real_value = d.min THEN [err |-> "", val |-> Rat(0, 1)]
         ELSE IF real_value = d.max THEN [err |-> "", val |-> Rat(1, 1)]
         ELSE [err |-> "ValueError", val |-> Rat(0, 1)]
    ELSE [err |-> "NotImplementedError", val |-> Rat(0, 1)]

\* Normalizer(knob_dict).denormalize(vec), knob_names the keys in order: the
\* error raised (and no result), or the configuration
DenormalizeOn(knob_dict, knob_names, vec) ==
    LET one(i) == denormalize_value(knob_dict[knob_names[i]], vec[i])
        bad    == {i \in DOMAIN knob_names : one(i).err # ""}
    IN  IF Len(vec) # Len(knob_names) THEN [err |-> "ValueError", cfg |-> <<>>]
        ELSE IF bad # {}
        THEN [err |-> one(CHOOSE i \in bad : \A j \in bad : i <= j).err, cfg |-> <<>>]
        ELSE [err |-> "",
              cfg |-> [k \in Range(knob_names) |->
                         one(CHOOSE i \in DOMAIN knob_names : knob_names[i] = k).val]]

\* Normalizer(knob_dict).normalize(config): the error raised (and no result),
\* or the vector of floats
NormalizeOn(knob_dict, knob_names, config) ==
    LET one(i) == IF knob_names[i] \notin DOMAIN config
                  THEN [err |-> "ValueError", val |-> Rat(0, 1)]
                  ELSE normalize_value(knob_dict[knob_names[i]], config[knob_names[i]])
        bad    == {i \in DOMAIN knob_names : one(i).err # ""}
    IN  IF bad # {}
        THEN [err |-> one(CHOOSE i \in bad : \A j \in bad : i <= j).err, vec |-> <<>>]
        ELSE [err |-> "", vec |-> [i \in DOMAIN knob_names |-> one(i).val]]

(***************************************************************************)
(* The Normalizer of the modelled configuration.  Its normalised values    *)
(* are quarters and its integer knobs span [0, 2], so every float of the   *)
(* computation is exact; the values are kept as numerators over GridDen.   *)
(***************************************************************************)
\* Normalizer.denormalize, one knob
DenormalizeKnob(k, norm_val) ==
    LET d == full_knob_dict(k)
    IN  IF d.kind = "integer"
        THEN LET real_value == RoundHalfEven(d.min * GridDen + norm_val * (d.max - d.min), GridDen)
             IN  IF real_value >= d.max THEN d.max
                 ELSE IF real_value <= d.min THEN d.min
                 ELSE real_value
        ELSE IF 2 * norm_val < GridDen THEN d.min ELSE d.max

\* Normalizer(knobs).denormalize(vec): knob -> real value, or the ValueError
Denormalize(knobs, vec) ==
    IF Len(vec) # Len(knobs) THEN [err |-> TRUE, cfg |-> <<>>]
    ELSE [err |-> FALSE,
          cfg |-> [k \in Range(knobs) |->
                     DenormalizeKnob(k, vec[CHOOSE i \in DOMAIN knobs : knobs[i] = k])]]

\* Normalizer.normalize, one knob: the value, or the ValueError
NormalizeKnob(k, real_value) ==
    LET d == full_knob_dict(k)
    IN  IF d.kind = "integer"
        THEN IF d.max = d.min THEN [err |-> TRUE, val |-> 0]
             ELSE [err |-> FALSE, val |-> ((real_value - d.min) * GridDen) \div (d.max - d.min)]
        ELSE IF real_value = d.min THEN [err |-> FALSE, val |-> 0]
             ELSE IF real_value = d.max THEN [err |-> FALSE, val |-> GridDen]
             ELSE [err |-> TRUE, val |-> 0]

\* Normalizer(knobs).normalize(config): config is a function knob -> real value
Normalize(knobs, config) ==
    IF \E i \in DOMAIN knobs :
           knobs[i] \notin DOMAIN config \/ NormalizeKnob(knobs[i], config[knobs[i]]).err
    THEN [err |-> TRUE, vec |-> <<>>]
    ELSE [err |-> FALSE,
          vec |-> [i \in DOMAIN knobs |-> NormalizeKnob(knobs[i], config[knobs[i]]).val]]

\* utils.get_combined_config, and the same merge in LoggingCallback.__call__ and
\* objective_func: tuned value, else frozen value, else default
CombinedConfig(n, knobs, vec, frozen) ==
    LET tuned_config == Denormalize(knobs, vec).cfg
    IN  [k \in 1..n |->
           IF k \in DOMAIN tuned_config THEN tuned_config[k]
           ELSE IF k \in DOMAIN frozen THEN frozen[k]
           ELSE full_knob_dict(k).default]

\* utils.load_intermediate_data on one row of the log: the row normalised over
\* tuned_knob_list, or zeros when normalisation fails
LoadRow(tuned_knob_list, row) ==
    LET r == Normalize(tuned_knob_list, row)
    IN  IF r.err THEN [i \in DOMAIN tuned_knob_list |-> 0] ELSE r.vec

(***************************************************************************)
(* tuner/main.py : decide_calls                                            *)
(***************************************************************************)
FlagNames ==
    {"is_basic", "is_low", "is_SE", "is_incremental", "is_bandit", "is_TS",
     "is_LRT", "is_super_low", "is_pure_incremental"}

Exclusive == {"is_basic", "is_incremental", "is_SE", "is_bandit"}

\* the settings tried, is_random with them: at most MaxFlags switches set, or
\* any of the four exclusive flags and nothing else
FlagSpace ==
    {c \in [f : [FlagNames -> {0, 1}], is_random : {0, 1}] :
        \/ Cardinality({n \in FlagNames : c.f[n] = 1}) + c.is_random <= MaxFlags
        \/ c.is_random = 0 /\ \A n \in FlagNames \ Exclusive : c.f[n] = 0}

NoFlags == [n \in FlagNames |-> 0]

\* n_calls before the cap, a warm start with added knobs always counted per
\* added knob
CallsWantedPerAdded(x0_is_none, updated_num, len_knobs, f, remaining_iters) ==
    LET cold  == IF Truthy(f.is_SE) THEN 100
                 ELSE IF Truthy(f.is_super_low) THEN 5 * len_knobs
                 ELSE 10 * len_knobs
        warm0 == IF updated_num = 0 THEN 10
                 ELSE IF Truthy(f.is_super_low) THEN updated_num * 5
                 ELSE updated_num * 10
        warm  == IF Truthy(f.is_SE) THEN remaining_iters - 100 ELSE warm0
        start == IF x0_is_none THEN cold ELSE warm
        basic == IF Truthy(f.is_basic) THEN remaining_iters ELSE start
    IN  IF Truthy(f.is_incremental) THEN 25 ELSE basic

\* n_calls before the cap, a warm start with no added knob counted as one with
\* added knobs
CallsWantedNoProbe(x0_is_none, updated_num, len_knobs, f, remaining_iters) ==
    LET cold  == IF Truthy(f.is_SE) THEN 100
                 ELSE IF Truthy(f.is_super_low) THEN 5 * len_knobs
                 ELSE 10 * len_knobs
        warm0 == IF Truthy(f.is_super_low) THEN updated_num * 5
                 ELSE IF Truthy(f.is_low) THEN updated_num * 10
                 ELSE 10 * len_knobs
        warm  == IF Truthy(f.is_SE) THEN remaining_iters - 100 ELSE warm0
        start == IF x0_is_none THEN cold ELSE warm
        basic == IF Truthy(f.is_basic) THEN remaining_iters ELSE start
    IN  IF Truthy(f.is_incremental) THEN 25 ELSE basic

\* n_calls before the cap, is_super_low left unread on a cold start
CallsWantedColdTen(x0_is_none, updated_num, len_knobs, f, remaining_iters) ==
    LET cold  == IF Truthy(f.is_SE) THEN 100 ELSE 10 * len_knobs
        warm0 == IF updated_num = 0 THEN 10
                 ELSE IF Truthy(f.is_super_low) THEN updated_num * 5
                 ELSE IF Truthy(f.is_low) THEN updated_num * 10
                 ELSE 10 * len_knobs
        warm  == IF Truthy(f.is_SE) THEN remaining_iters - 100 ELSE warm0
        start == IF x0_is_none THEN cold ELSE warm
        basic == IF Truthy(f.is_basic) THEN remaining_iters ELSE start
    IN  IF Truthy(f.is_incremental) THEN 25 ELSE basic

\* n_calls before the cap, lines 86-118 (the exit of line 115 aside)
CallsWanted(x0_is_none, updated_num, len_knobs, f, remaining_iters) ==
    LET cold  == IF Truthy(f.is_SE) THEN 100
                 ELSE IF Truthy(f.is_super_low) THEN 5 * len_knobs
                 ELSE 10 * len_knobs
        warm0 == IF updated_num = 0 THEN 10
                 ELSE IF Truthy(f.is_super_low) THEN updated_num * 5
                 ELSE IF Truthy(f.is_low) THEN updated_num * 10
                 ELSE 10 * len_knobs
        warm  == IF Truthy(f.is_SE) THEN remaining_iters - 100 ELSE warm0
        start == IF x0_is_none THEN cold ELSE warm
        basic == IF Truthy(f.is_basic) THEN remaining_iters ELSE start
    IN  IF Truthy(f.is_incremental) THEN 25 ELSE basic

\* the test of line 113
FlagConflict(f) == f.is_basic + f.is_incremental + f.is_SE + f.is_bandit > 2

\* decide_calls without the cap of line 120
decide_callsUncapped(x0_is_none, updated_num, len_knobs, f, remaining_iters) ==
    [exit |-> FlagConflict(f),
     initial_pts |-> IF x0_is_none THEN 10 ELSE 0,
     n_calls |-> CallsWanted(x0_is_none, updated_num, len_knobs, f, remaining_iters)]

\* decide_calls: sys.exit(1), or (initial_pts, min(n_calls, remaining_iters))
decide_calls(x0_is_none, updated_num, len_knobs, f, remaining_iters) ==
    IF FlagConflict(f)
    THEN [exit |-> TRUE, initial_pts |-> 0, n_calls |-> 0]
    ELSE [exit |-> FALSE,
          initial_pts |-> IF x0_is_none THEN 10 ELSE 0,
          n_calls |-> Min(CallsWanted(x0_is_none, updated_num, len_knobs, f, remaining_iters),
                          remaining_iters)]

(***************************************************************************)
(* tuner/knob_selection.py : IncrementalSupportMask (n_features, step 2,   *)
(* initial 4); the instance is its field selected.                         *)
(***************************************************************************)
NewSelector == 4 - 2

SelectorCall(selected, n_features) ==
    LET new_selected == Min(selected + 2, n_features)
    IN  [selected |-> new_selected,
         mask |-> [i \in 1..n_features |-> i - 1 < new_selected]]

(***************************************************************************)
(* tuner/main.py : feature_selection_cycle                                 *)
(***************************************************************************)

\* which branch of the chain of lines 194-288 runs
Branch(f) ==
    IF ~Truthy(f.is_SE) /\ ~Truthy(f.is_incremental) /\ ~Truthy(f.is_bandit)
       /\ ~Truthy(f.is_TS) /\ ~Truthy(f.is_LRT) /\ ~Truthy(f.is_pure_incremental)
    THEN "rfecv"
    ELSE IF Truthy(f.is_incremental) THEN "incremental"
    ELSE IF Truthy(f.is_SE) THEN "SE"
    ELSE IF Truthy(f.is_bandit) THEN "bandit"
    ELSE IF Truthy(f.is_TS) \/ Truthy(f.is_LRT) THEN "tslrt"
    ELSE "pure"

\* the branches that assign min_features_to_select, which line 291 prints
MinFeaturesAssigned(f) == Branch(f) \in {"tslrt", "pure"}

\* rfecv.support_: RFECV keeps at least min_features_to_select features (all of
\* them when there are fewer); which ones is the regressor's choice
RFECVMasks(n, min_features) ==
    {m \in [1..n -> BOOLEAN] : CountTrue(m) >= Min(min_features, n)}

\* eliminate_with_scipy_ttest over the observations: any mask, one entry per knob
SEMasks(n) == [1..n -> BOOLEAN]

\* lines 231-242 and 260-268: reward, bandit.update, bandit.select.  perf is
\* [cur_perf, best_perf, n_calls]; context is None for select().
BanditStep(b, perf, context) ==
    LET r   == BanditReward(b, perf.cur_perf, perf.best_perf, perf.n_calls)
        b1  == BanditUpdate(b, r.value)
        upd == [op |-> "update", pending |-> Pending(b), reward |-> r.value, action |-> None]
    IN  IF r.err
        THEN { [err |-> "OverflowError", bandit |-> b, bandit_choice |-> None, ops |-> <<>>] }
        ELSE IF (context # None) # (b1.kind = "CTS")
        THEN { [err |-> "TypeError", bandit |-> b1, bandit_choice |-> None, ops |-> <<upd>>] }
        ELSE { [err |-> "", bandit |-> s.bandit, bandit_choice |-> s.action,
                ops |-> <<upd, [op |-> "select", pending |-> Pending(b1), reward |-> 0,
                                action |-> s.action]>>]
               : s \in (CASE b1.kind = "CTS" -> CTSSelect(b1, context)
                          [] b1.kind = "TS"  -> TSSelect(b1)
                          [] b1.kind = "LRT" -> LRTSelect(b1)) }

\* lines 192-288: the mask, the selector and bandit after the branch, the bandit's
\* choice, and the error the branch raised if it did
MaskStage(f, n, sel, n_features, b, perf) ==
    LET plain(m) == [err |-> "", mask |-> m, selector |-> sel, bandit |-> b,
                     bandit_choice |-> None, ops |-> <<>>]
        minf     == IF Truthy(f.is_super_low) THEN 10 ELSE 1
    IN  CASE Branch(f) = "rfecv" -> { plain(m) : m \in RFECVMasks(n, 1) }
          [] Branch(f) = "incremental" ->
                IF sel = None
                THEN { [plain(<<>>) EXCEPT !.err = "TypeError"] }
                ELSE { [plain(SelectorCall(sel, n_features).mask)
                          EXCEPT !.selector = SelectorCall(sel, n_features).selected] }
          [] Branch(f) = "SE" -> { plain(m) : m \in SEMasks(n) }
          [] Branch(f) = "bandit" ->
                UNION { { [plain(m) EXCEPT !.err = o.err, !.bandit = o.bandit,
                                           !.bandit_choice = o.bandit_choice, !.ops = o.ops]
                          : o \in BanditStep(b, perf, IF CountTrue(m) = n THEN 1 ELSE 0) }
                        : m \in RFECVMasks(n, 1) }
          [] Branch(f) = "tslrt" ->
                UNION { { [plain(m) EXCEPT !.err = o.err, !.bandit = o.bandit,
                                           !.bandit_choice = o.bandit_choice, !.ops = o.ops]
                          : o \in BanditStep(b, perf, None) }
                        : m \in RFECVMasks(n, minf) }
          [] Branch(f) = "pure" ->
                { [plain(m) EXCEPT !.bandit_choice = 0] : m \in RFECVMasks(n, minf) }

\* a faulty variant of lines 314-321: a knob that left the set frozen at its
\* default instead of its value in best_cfg
FreezeAtDefault(frozen, current, new_knobs, best_cfg) ==
    [k \in DOMAIN frozen \cup (Range(current) \ Range(new_knobs)) |->
        IF k \in Range(current) \ Range(new_knobs) THEN full_knob_dict(k).default
        ELSE frozen[k]]

\* a faulty variant of lines 314-321: frozen_values rebuilt from the knobs that
\* left the set this time, the earlier entries lost
FreezeForgetsEarlier(frozen, current, new_knobs, best_cfg) ==
    [k \in Range(current) \ Range(new_knobs) |-> best_cfg[k]]

\* lines 314-321: frozen_values after freezing the knobs that left the set
Freeze(frozen, current, new_knobs, best_cfg) ==
    [k \in DOMAIN frozen \cup (Range(current) \ Range(new_knobs)) |->
        IF k \in Range(current) \ Range(new_knobs) THEN best_cfg[k] ELSE frozen[k]]

\* lines 308-333, after update_tuned_knobs returned u: (knobs, updated_num, x0)
\* and frozen_values.  X_all and log are the summaries of the history in memory
\* and of the round log.
AfterUpdate(u, X_all, log, current, frozen, n) ==
    IF u.updated
    THEN LET best_cfg == CombinedConfig(n, current, X_all.best_x, frozen)
         IN  [knobs |-> u.new_list,
              updated_num |-> Cardinality(Range(u.new_list) \ Range(current)),
              x0 |-> [rows |-> log.rows, best_x |-> LoadRow(u.new_list, log.best_row),
                      best_y |-> X_all.best_y],
              frozen |-> Freeze(frozen, current, u.new_list, best_cfg)]
    ELSE [knobs |-> current, updated_num |-> 0, x0 |-> X_all, frozen |-> frozen]

\* feature_selection_cycle: every outcome of one call
feature_selection_cycle(X_all, log, current, frozen, f, sel, random_flag, b, perf, n) ==
    UNION {
      IF st.err # ""
      THEN { [err |-> st.err, stage |-> st, called |-> FALSE, u |-> [new_list |-> <<>>, updated |-> FALSE],
              after |-> [knobs |-> current, updated_num |-> 0, x0 |-> X_all, frozen |-> frozen]] }
      ELSE IF ~MinFeaturesAssigned(f)
      THEN { [err |-> "UnboundLocalError", stage |-> st, called |-> FALSE,
              u |-> [new_list |-> <<>>, updated |-> FALSE],
              after |-> [knobs |-> current, updated_num |-> 0, x0 |-> X_all, frozen |-> frozen]] }
      ELSE { [err |-> "", stage |-> st, called |-> TRUE, u |-> u,
              after |-> AfterUpdate(u, X_all, log, current, frozen, n)]
             : u \in UpdateTunedKnobs(current, KeysOf(n), st.mask, DOMAIN frozen,
                                      random_flag, f, st.bandit_choice) }
      : st \in MaskStage(f, Len(current), sel, n, b, perf) }

(***************************************************************************)
(* tuner/main.py : main.  The history in memory (x0, y0, and X_all, y_all) *)
(* and the round log are kept by what the run reads of them: the number of *)
(* rows, the row of minimum objective (its vector, its logged              *)
(* configuration, its objective) and, per round, the round's minimum.      *)
(***************************************************************************)

\* the budgets tried
TotalChoices == {MaxTotal \div 4, MaxTotal \div 2, MaxTotal}

\* objective values an evaluation can return: -tps of a throughput benchmark,
\* and 1000 for an evaluation far worse than the rest
\* (objective_func scores a configuration that could not be applied 1e9)
ObjValues == {-20, -10, 1000}

\* the points of the unit interval the optimizer can ask for
OracleGrid == {1, GridDen \div 2, GridDen}

Vectors(n) == [1..n -> OracleGrid]

\* the best objective of the rows a resumed run starts from
PriorBest == 0 - 10

NoHistory == [rows |-> 0, best_x |-> <<>>, best_y |-> 0]

DefaultRow(n) == [k \in 1..n |-> full_knob_dict(k).default]

\* the best row of the log a resumed run starts from: of a run that tuned no
\* knob away from its default, or of one that had every knob at its maximum
PriorBestRows == {DefaultRow(NKnobs), [k \in 1..NKnobs |-> full_knob_dict(k).max]}

\* lines 384-395: the bandit main builds
NewBandit(f) ==
    IF Truthy(f.is_LRT) THEN NewTwoActionLRT
    ELSE IF Truthy(f.is_TS) THEN NewTwoActionTS
    ELSE IF Truthy(f.is_bandit) THEN NewContextualTS
    ELSE NoBandit

\* utils.get_knob_dicts: the first top_n keys, or random.sample(all_keys, top_n)
TunedKeys(n, top_n, random_flag) ==
    IF random_flag # 1 THEN {KeysOf(Min(top_n, n))} ELSE InjSeqs(1..n, top_n)

\* best_result before any round has ended
NoBest == [set |-> FALSE, tps |-> 0, cfg |-> <<>>]

NoCycle == [ran |-> FALSE, round_no |-> 0, err |-> "", prev_knobs |-> <<>>,
            ops |-> <<>>, best_row |-> <<>>, prev_best |-> NoBest,
            mask |-> <<>>, prev_frozen |-> <<>>]

NoCall == [called |-> FALSE, n_keys |-> 0, current |-> <<>>, mask |-> <<>>,
           frozen_keys |-> {}, is_random |-> 0, f |-> NoFlags, bandit_choice |-> None,
           new_list |-> <<>>, updated |-> FALSE]

NoPerf == [cur_perf |-> 0, best_perf |-> 0, n_calls |-> 0]

NoBanditOp == [op |-> "none", prev |-> "none", n |-> 0, reward |-> 0, context |-> None,
               before |-> NoBandit, perf |-> NoPerf, err |-> FALSE]

NoRound == [initial_pts |-> 0, n_calls |-> 0, X_all |-> NoHistory, cur_min |-> 0,
            prior_rows |-> 0, prior_min |-> 0]

\* nzr before any Normalizer call is made on its own
NoNormCall ==
    [op |-> "none", knob_names |-> <<>>, arg |-> <<>>, err |-> "", res |-> <<>>,
     prev_op |-> "none", prev_arg |-> <<>>]

\* the other records before the unit they belong to has run
NoDriver == [best_total_time |-> None, best_olap_times |-> <<>>, budget_allocator |-> 0]

NoOlapCall == [called |-> FALSE]

NoEvaluation == [n |-> 0]

NoLoad == [called |-> FALSE]

NoSelection == [calls |-> 0]

\* the state of main at the head of the while loop, line 403
Init ==
    /\ pc = "decide"
    /\ \E c \in FlagSpace : flags = c.f /\ is_random = c.is_random
    /\ total_iterations \in TotalChoices
    /\ overall_iters = 0
    /\ \E top_n \in 1..NKnobs : current_knobs \in TunedKeys(NKnobs, top_n, is_random)
    /\ frozen_values = <<>>
    /\ updated_knobs_num = 0
    /\ \/ csv = [rows |-> 0, best_row |-> DefaultRow(NKnobs), best_y |-> 0]
       \/ \E row \in PriorBestRows :
              csv = [rows |-> PriorRows, best_row |-> row, best_y |-> PriorBest]
    /\ x0 = IF csv.rows = 0 THEN NoHistory
            ELSE [rows |-> csv.rows, best_x |-> LoadRow(current_knobs, csv.best_row),
                  best_y |-> csv.best_y]
    /\ round = NoRound
    /\ selector = IF Truthy(flags.is_incremental) /\ ~Truthy(flags.is_SE)
                  THEN NewSelector ELSE None
    /\ bandit = NewBandit(flags)
    /\ best_result = NoBest
    /\ cyc = NoCycle
    /\ utk = NoCall
    /\ bop = NoBanditOp
    /\ nzr = NoNormCall
    /\ driver = NoDriver
    /\ olp = NoOlapCall
    /\ evl = NoEvaluation
    /\ lod = NoLoad
    /\ ksl = NoSelection

\* lines 403-410: the loop test passed, decide_calls
DecideCalls ==
    /\ pc = "decide"
    /\ LET d == decide_calls(x0.rows = 0, updated_knobs_num, Len(current_knobs), flags,
                             total_iterations - overall_iters)
       IN  IF d.exit
           THEN pc' = "config_error" /\ round' = round
           ELSE /\ pc' = "optimize"
                /\ round' = [NoRound EXCEPT !.initial_pts = d.initial_pts,
                                            !.n_calls = d.n_calls]
    /\ UNCHANGED <<flags, is_random, total_iterations, overall_iters, current_knobs,
                   frozen_values, updated_knobs_num, x0, csv, selector, bandit,
                   best_result, cyc, utk, bop, nzr, driver, olp, evl, lod, ksl>>

\* lines 412-430: run_optimization_iteration and the count of its calls.  The
\* optimizer evaluates n_calls points; each is logged by LoggingCallback with
\* the configuration objective_func applied.  Its result is the warm-start
\* history followed by the new observations.
RunOptimization ==
    /\ pc = "optimize"
    /\ round.n_calls > 0
    /\ \E y \in ObjValues :
         LET newbest == x0.rows = 0 \/ y < x0.best_y
         IN  \E v \in (IF newbest THEN Vectors(Len(current_knobs)) ELSE {x0.best_x}) :
               /\ round' = [round EXCEPT
                              !.X_all = [rows |-> x0.rows + round.n_calls, best_x |-> v,
                                         best_y |-> IF newbest THEN y ELSE x0.best_y],
                              !.cur_min = y,
                              !.prior_rows = csv.rows,
                              !.prior_min = csv.best_y]
               /\ csv' = [rows |-> csv.rows + round.n_calls,
                          best_row |-> IF newbest
                                       THEN CombinedConfig(NKnobs, current_knobs, v, frozen_values)
                                       ELSE csv.best_row,
                          best_y |-> IF newbest THEN y ELSE csv.best_y]
    /\ overall_iters' = overall_iters + round.n_calls
    /\ pc' = "select"
    /\ UNCHANGED <<flags, is_random, total_iterations, current_knobs, frozen_values,
                   updated_knobs_num, x0, selector, bandit, best_result, cyc, utk,
                   bop, nzr, driver, olp, evl, lod, ksl>>

\* lines 412-430 when decide_calls returned no call to make (n_calls <= 0): the
\* optimizer either rejects the request or returns the warm-start history as it
\* is; main adds n_calls to overall_iters as it stands.
RunOptimizationNoCalls ==
    /\ pc = "optimize"
    /\ round.n_calls <= 0
    /\ \E rejected \in BOOLEAN :
         IF rejected
         THEN pc' = "crashed" /\ UNCHANGED <<round, overall_iters>>
         ELSE /\ pc' = "select"
              /\ round' = [round EXCEPT !.X_all = x0, !.cur_min = csv.best_y,
                                        !.prior_rows = csv.rows, !.prior_min = csv.best_y]
              /\ overall_iters' = overall_iters + round.n_calls
    /\ UNCHANGED <<flags, is_random, total_iterations, current_knobs, frozen_values,
                   updated_knobs_num, x0, csv, selector, bandit, best_result, cyc,
                   utk, bop, nzr, driver, olp, evl, lod, ksl>>

\* cur_perf and best_perf of lines 231-239 and 260-265, read from the log
RoundPerf ==
    [cur_perf  |-> 0 - round.cur_min,
     best_perf |-> IF round.prior_rows > 0 THEN 0 - round.prior_min ELSE 0,
     n_calls   |-> round.n_calls]

\* lines 432-455: feature_selection_cycle, best_result, and the loop test
FeatureSelection ==
    /\ pc = "select"
    /\ \E o \in feature_selection_cycle(round.X_all, csv, current_knobs, frozen_values,
                                        flags, selector, is_random, bandit, RoundPerf, NKnobs) :
         /\ selector' = o.stage.selector
         /\ bandit' = o.stage.bandit
         /\ cyc' = [ran |-> TRUE, round_no |-> cyc.round_no + 1, err |-> o.err,
                    prev_knobs |-> current_knobs, ops |-> o.stage.ops,
                    best_row |-> csv.best_row, prev_best |-> best_result,
                    mask |-> o.stage.mask, prev_frozen |-> frozen_values]
         /\ utk' = IF o.called
                   THEN [called |-> TRUE, n_keys |-> NKnobs, current |-> current_knobs,
                         mask |-> o.stage.mask, frozen_keys |-> DOMAIN frozen_values,
                         is_random |-> is_random, f |-> flags,
                         bandit_choice |-> o.stage.bandit_choice,
                         new_list |-> o.u.new_list, updated |-> o.u.updated]
                   ELSE utk
         /\ IF o.err # ""
            THEN /\ pc' = "crashed"
                 /\ UNCHANGED <<current_knobs, frozen_values, updated_knobs_num, x0,
                                best_result>>
            ELSE /\ current_knobs' = o.after.knobs
                 /\ updated_knobs_num' = o.after.updated_num
                 /\ x0' = o.after.x0
                 /\ frozen_values' = o.after.frozen
                 /\ best_result' =
                      [set |-> TRUE, tps |-> 0 - o.after.x0.best_y,
                       cfg |-> CombinedConfig(NKnobs, o.after.knobs, o.after.x0.best_x,
                                              o.after.frozen)]
                 /\ pc' = IF overall_iters < total_iterations THEN "decide" ELSE "done"
    /\ UNCHANGED <<flags, is_random, total_iterations, overall_iters, csv, round, bop,
                   nzr, driver, olp, evl, lod, ksl>>

Next == DecideCalls \/ RunOptimization \/ RunOptimizationNoCalls \/ FeatureSelection

Spec == Init /\ [][Next]_vars

(***************************************************************************)
(* update_tuned_knobs called on its own: every call over a dictionary of   *)
(* NKnobs knobs, and calls with BigCurrent tuned knobs over larger         *)
(* dictionaries.  utk holds the arguments, then the result.                *)
(***************************************************************************)

\* the keyword flags update_tuned_knobs receives
PolicyFlags ==
    {f \in [FlagNames -> {0, 1}] : f.is_basic = 0 /\ f.is_low = 0 /\ f.is_super_low = 0}

SinglePolicy == {f \in PolicyFlags : Cardinality({n \in FlagNames : f[n] = 1}) <= 1}

\* bandit_choice: -1 as line 192 of main.py leaves it, or a bandit's action
Choices == {None, 0, 1}

\* masks the cycle can pass: one entry per tuned knob, or (IncrementalSupportMask)
\* one per knob of the dictionary
MasksFor(len_current, n_keys, f) ==
    [1..len_current -> BOOLEAN]
    \cup (IF f.is_incremental = 1
          THEN {[i \in 1..n_keys |-> i <= m] : m \in 0..n_keys} ELSE {})

\* masks of the large calls: the first m knobs important, or the last m
EdgeMasks(n) ==
    {[i \in 1..n |-> i <= m] : m \in 0..n} \cup {[i \in 1..n |-> i > n - m] : m \in 0..n}

CallArgs(n_keys, current, mask, frozen_keys, random_flag, f, bandit_choice) ==
    [called |-> FALSE, n_keys |-> n_keys, current |-> current, mask |-> mask,
     frozen_keys |-> frozen_keys, is_random |-> random_flag, f |-> f,
     bandit_choice |-> bandit_choice, new_list |-> <<>>, updated |-> FALSE]

\* every call over a dictionary of NKnobs knobs: any tuned list without
\* duplicates, any set of frozen knobs outside it, any mask, flags and choice
SmallCall(u) ==
    \E f \in PolicyFlags, m \in 0..NKnobs, r \in {0, 1}, b \in Choices :
      \E current \in InjSeqs(1..NKnobs, m) :
        \E mask \in MasksFor(m, NKnobs, f),
           frozen_keys \in SUBSET (1..NKnobs \ Range(current)) :
          u = CallArgs(NKnobs, current, mask, frozen_keys, r, f, b)

\* the large calls: the first BigCurrent knobs tuned, none frozen, two or
\* BigKeys - BigCurrent knobs unused
BigCall(u) ==
    \E n_keys \in {BigCurrent + 2, BigKeys}, mask \in EdgeMasks(BigCurrent),
       r \in {0, 1}, f \in SinglePolicy, b \in Choices :
      u = CallArgs(n_keys, KeysOf(BigCurrent), mask, {}, r, f, b)

InitKnobs ==
    /\ pc = "call"
    /\ SmallCall(utk) \/ BigCall(utk)
    /\ flags = utk.f
    /\ is_random = utk.is_random
    /\ current_knobs = utk.current
    /\ frozen_values = [k \in utk.frozen_keys |-> full_knob_dict(k).default]
    /\ total_iterations = 0
    /\ overall_iters = 0
    /\ updated_knobs_num = 0
    /\ x0 = NoHistory
    /\ csv = NoHistory
    /\ round = NoRound
    /\ selector = None
    /\ bandit = NoBandit
    /\ best_result = NoBest
    /\ cyc = NoCycle
    /\ bop = NoBanditOp
    /\ nzr = NoNormCall
    /\ driver = NoDriver
    /\ olp = NoOlapCall
    /\ evl = NoEvaluation
    /\ lod = NoLoad
    /\ ksl = NoSelection

\* one call of update_tuned_knobs on the arguments held in utk
CallUpdateTunedKnobs ==
    /\ pc = "call"
    /\ \E r \in UpdateTunedKnobs(utk.current, KeysOf(utk.n_keys), utk.mask,
                                 utk.frozen_keys, utk.is_random, utk.f, utk.bandit_choice) :
         utk' = [utk EXCEPT !.called = TRUE, !.new_list = r.new_list,
                            !.updated = r.updated]
    /\ pc' = "returned"
    /\ UNCHANGED <<flags, is_random, total_iterations, overall_iters, current_knobs,
                   frozen_values, updated_knobs_num, x0, csv, round, selector, bandit,
                   best_result, cyc, bop, nzr, driver, olp, evl, lod, ksl>>

NextKnobs == CallUpdateTunedKnobs

SpecKnobs == InitKnobs /\ [][NextKnobs]_vars

(***************************************************************************)
(* A bandit called on its own: any sequence of at most MaxBanditOps select *)
(* and update calls on a fresh instance of each class.  bop holds the last *)
(* call, the call before it, and the instance as it was before the call.   *)
(***************************************************************************)
InitBandit ==
    /\ pc = "bandit"
    /\ bandit \in {NewTwoActionLRT, NewTwoActionTS, NewContextualTS}
    /\ bop = NoBanditOp
    /\ flags = NoFlags
    /\ is_random = 0
    /\ total_iterations = 0
    /\ overall_iters = 0
    /\ current_knobs = <<>>
    /\ frozen_values = <<>>
    /\ updated_knobs_num = 0
    /\ x0 = NoHistory
    /\ csv = NoHistory
    /\ round = NoRound
    /\ selector = None
    /\ best_result = NoBest
    /\ cyc = NoCycle
    /\ utk = NoCall
    /\ nzr = NoNormCall
    /\ driver = NoDriver
    /\ olp = NoOlapCall
    /\ evl = NoEvaluation
    /\ lod = NoLoad
    /\ ksl = NoSelection

\* bandit.select(), or bandit.select(context) on a ContextualTS
SelectCall ==
    /\ pc = "bandit"
    /\ bop.n < MaxBanditOps
    /\ \E context \in (IF bandit.kind = "CTS" THEN {0, 1} ELSE {None}) :
       \E s \in (CASE bandit.kind = "CTS" -> CTSSelect(bandit, context)
                   [] bandit.kind = "TS"  -> TSSelect(bandit)
                   [] bandit.kind = "LRT" -> LRTSelect(bandit)) :
         /\ bandit' = s.bandit
         /\ bop' = [op |-> "select", prev |-> bop.op, n |-> bop.n + 1, reward |-> 0,
                    context |-> context, before |-> bandit, perf |-> NoPerf,
                    err |-> FALSE]
    /\ UNCHANGED <<pc, flags, is_random, total_iterations, overall_iters, current_knobs,
                   frozen_values, updated_knobs_num, x0, csv, round, selector,
                   best_result, cyc, utk, nzr, driver, olp, evl, lod, ksl>>

\* bandit.update(reward), reward in [0, 1]
UpdateCall ==
    /\ pc = "bandit"
    /\ bop.n < MaxBanditOps
    /\ \E reward \in 0..RewardDen :
         /\ bandit' = BanditUpdate(bandit, reward)
         /\ bop' = [op |-> "update", prev |-> bop.op, n |-> bop.n + 1, reward |-> reward,
                    context |-> None, before |-> bandit, perf |-> NoPerf, err |-> FALSE]
    /\ UNCHANGED <<pc, flags, is_random, total_iterations, overall_iters, current_knobs,
                   frozen_values, updated_knobs_num, x0, csv, round, selector,
                   best_result, cyc, utk, nzr, driver, olp, evl, lod, ksl>>

\* performances reward() is called on: TPS of rounds (the best so far, 0 when
\* there is none yet), -1000 for a round whose every evaluation was penalised,
\* and the negative values logged under a latency or OLAP objective
PerfValues == {0 - 1000, 0 - 20, 0 - 10, 0, 10, 20, 1000, 1001, 1002}

\* n_calls of a round
CallCounts == {1, 5, 10}

\* bandit.reward(cur_perf, best_perf, n_calls), a static method: the instance is
\* left as it is (so one call in a row is all that is tried)
RewardCall ==
    /\ pc = "bandit"
    /\ bop.op # "reward"
    /\ \E cur_perf \in PerfValues, best_perf \in PerfValues, n_calls \in CallCounts :
         LET r == BanditReward(bandit, cur_perf, best_perf, n_calls)
         IN  bop' = [op |-> "reward", prev |-> bop.op, n |-> bop.n, reward |-> r.value,
                     context |-> None, before |-> bandit,
                     perf |-> [cur_perf |-> cur_perf, best_perf |-> best_perf,
                               n_calls |-> n_calls],
                     err |-> r.err]
    /\ UNCHANGED <<pc, flags, is_random, total_iterations, overall_iters, current_knobs,
                   frozen_values, updated_knobs_num, x0, csv, round, selector, bandit,
                   best_result, cyc, utk, nzr, driver, olp, evl, lod, ksl>>

NextBandit == SelectCall \/ UpdateCall \/ RewardCall

SpecBandit == InitBandit /\ [][NextBandit]_vars

(***************************************************************************)
(* A Normalizer called on its own, over knobs of wider ranges than the     *)
(* modelled configuration has: one normalize or denormalize call on given  *)
(* arguments, then calls on what the call before returned.  nzr holds the  *)
(* last call (its argument, the error raised or the result) and the        *)
(* argument of the call before it.                                         *)
(***************************************************************************)
\* the knob definitions the calls are made on: A and B are the knobs of the
\* documented example; W is wider than a float's mantissa, as MySQL's 64-bit
\* knobs are; D has max = min; N starts below zero; E is of no supported type
UnitKnobDict ==
    [k \in {"A", "B", "W", "D", "N", "E"} |->
       CASE k = "A" -> [kind |-> "integer", min |-> 0, max |-> 100, default |-> 50]
         [] k = "B" -> [kind |-> "boolean", min |-> 0, max |-> 1, default |-> 0]
         [] k = "W" -> [kind |-> "integer", min |-> 0, max |-> 2 * MantissaTop + 1,
                        default |-> 0]
         [] k = "D" -> [kind |-> "integer", min |-> 5, max |-> 5, default |-> 5]
         [] k = "N" -> [kind |-> "integer", min |-> 0 - 3, max |-> 4, default |-> 0]
         [] k = "E" -> [kind |-> "enum", min |-> 0, max |-> 1, default |-> 0]]

\* the key lists of the Normalizer instances
UnitNames ==
    {<<k>> : k \in DOMAIN UnitKnobDict} \cup {<<"A", "B">>, <<"B", "D">>}

\* the values a configuration may hold for a knob: every value of its range,
\* and for a boolean knob a value (2) that is neither of its two
UnitValues(k) ==
    IF UnitKnobDict[k].kind = "boolean" THEN {0, 1, 2}
    ELSE UnitKnobDict[k].min .. UnitKnobDict[k].max

\* the floats a vector may hold: tenths from -0.2 to 1.2, and the float next
\* below 0.5
UnitFloats ==
    {FlRound(n, 10) : n \in (0 - 2)..12} \cup {Rat(MantissaTop - 1, 2 * MantissaTop)}

InitNorm ==
    /\ pc = "norm"
    /\ nzr = NoNormCall
    /\ driver = NoDriver
    /\ olp = NoOlapCall
    /\ evl = NoEvaluation
    /\ lod = NoLoad
    /\ ksl = NoSelection
    /\ bandit = NoBandit
    /\ bop = NoBanditOp
    /\ flags = NoFlags
    /\ is_random = 0
    /\ total_iterations = 0
    /\ overall_iters = 0
    /\ current_knobs = <<>>
    /\ frozen_values = <<>>
    /\ updated_knobs_num = 0
    /\ x0 = NoHistory
    /\ csv = NoHistory
    /\ round = NoRound
    /\ selector = None
    /\ best_result = NoBest
    /\ cyc = NoCycle
    /\ utk = NoCall

\* nzr after Normalizer(knob_dict).normalize(config)
Normalized(knob_names, config) ==
    LET r == NormalizeOn(UnitKnobDict, knob_names, config)
    IN  [op |-> "normalize", knob_names |-> knob_names, arg |-> config,
         err |-> r.err, res |-> r.vec, prev_op |-> nzr.op, prev_arg |-> nzr.arg]

\* nzr after Normalizer(knob_dict).denormalize(vec)
Denormalized(knob_names, vec) ==
    LET r == DenormalizeOn(UnitKnobDict, knob_names, vec)
    IN  [op |-> "denormalize", knob_names |-> knob_names, arg |-> vec,
         err |-> r.err, res |-> r.cfg, prev_op |-> nzr.op, prev_arg |-> nzr.arg]

\* normalize(config) on a configuration that holds every knob of the instance,
\* or every knob but one
NormalizeCall ==
    /\ pc = "norm"
    /\ nzr.op = "none"
    /\ \E knob_names \in UnitNames :
       \E v1 \in UnitValues(knob_names[1]) :
       \E v2 \in (IF Len(knob_names) > 1 THEN UnitValues(knob_names[2]) ELSE {0}) :
       \E missing \in {0} \cup DOMAIN knob_names :
         LET v       == <<v1, v2>>
             present == {i \in DOMAIN knob_names : i # missing}
         IN  nzr' = Normalized(knob_names,
                               [k \in {knob_names[i] : i \in present} |->
                                  v[CHOOSE i \in present : knob_names[i] = k]])
    /\ UNCHANGED <<pc, flags, is_random, total_iterations, overall_iters, current_knobs,
                   frozen_values, updated_knobs_num, x0, csv, round, selector, bandit,
                   best_result, cyc, utk, bop, driver, olp, evl, lod, ksl>>

\* denormalize(vec) on a vector of the instance's length, or one shorter or
\* longer
DenormalizeCall ==
    /\ pc = "norm"
    /\ nzr.op = "none"
    /\ \E knob_names \in UnitNames :
       \E n \in (Len(knob_names) - 1)..(Len(knob_names) + 1) :
       \E vec \in [1..n -> UnitFloats] :
         nzr' = Denormalized(knob_names, vec)
    /\ UNCHANGED <<pc, flags, is_random, total_iterations, overall_iters, current_knobs,
                   frozen_values, updated_knobs_num, x0, csv, round, selector, bandit,
                   best_result, cyc, utk, bop, driver, olp, evl, lod, ksl>>

\* denormalize(normalize(config)): the round trip of a configuration
DenormalizeBack ==
    /\ pc = "norm"
    /\ nzr.op = "normalize"
    /\ nzr.err = ""
    /\ nzr' = Denormalized(nzr.knob_names, nzr.res)
    /\ UNCHANGED <<pc, flags, is_random, total_iterations, overall_iters, current_knobs,
                   frozen_values, updated_knobs_num, x0, csv, round, selector, bandit,
                   best_result, cyc, utk, bop, driver, olp, evl, lod, ksl>>

\* normalize(denormalize(vec)): the vector of the configuration a vector stands
\* for
NormalizeBack ==
    /\ pc = "norm"
    /\ nzr.op = "denormalize"
    /\ nzr.err = ""
    /\ nzr' = Normalized(nzr.knob_names, nzr.res)
    /\ UNCHANGED <<pc, flags, is_random, total_iterations, overall_iters, current_knobs,
                   frozen_values, updated_knobs_num, x0, csv, round, selector, bandit,
                   best_result, cyc, utk, bop, driver, olp, evl, lod, ksl>>

NextNorm == NormalizeCall \/ DenormalizeCall \/ DenormalizeBack \/ NormalizeBack

SpecNorm == InitNorm /\ [][NextNorm]_vars

(***************************************************************************)
(* decide_calls called on its own: one call at the head of a round, on     *)
(* every flags tuple, with and without warm-start history, for budgets     *)
(* below and above the constants of the function (10 per knob, 25, 100).   *)
(***************************************************************************)
\* bayes_opt_settings.n_calls
CallBudgets == {5, 30, 130}

\* calls counted before the round
CallsSpent == {0, 3}

InitCalls ==
    /\ pc = "decide"
    /\ flags \in [FlagNames -> {0, 1}]
    /\ is_random = 0
    /\ total_iterations \in CallBudgets
    /\ overall_iters \in CallsSpent
    /\ \E n \in 1..NKnobs : current_knobs = KeysOf(n)
    /\ updated_knobs_num \in 0..Len(current_knobs)
    /\ frozen_values = <<>>
    /\ \/ csv = [rows |-> 0, best_row |-> DefaultRow(NKnobs), best_y |-> 0]
       \/ csv = [rows |-> PriorRows, best_row |-> DefaultRow(NKnobs), best_y |-> PriorBest]
    /\ x0 = IF csv.rows = 0 THEN NoHistory
            ELSE [rows |-> csv.rows, best_x |-> LoadRow(current_knobs, csv.best_row),
                  best_y |-> csv.best_y]
    /\ round = NoRound
    /\ selector = IF Truthy(flags.is_incremental) /\ ~Truthy(flags.is_SE)
                  THEN NewSelector ELSE None
    /\ bandit = NewBandit(flags)
    /\ best_result = NoBest
    /\ cyc = NoCycle
    /\ utk = NoCall
    /\ bop = NoBanditOp
    /\ nzr = NoNormCall
    /\ driver = NoDriver
    /\ olp = NoOlapCall
    /\ evl = NoEvaluation
    /\ lod = NoLoad
    /\ ksl = NoSelection

SpecCalls == InitCalls /\ [][DecideCalls]_vars

(***************************************************************************)
(* Drivers/MySQLDriver.py : execute_olap.  A script is the sequence of the *)
(* parts between semicolons; a part is known by its position and by what   *)
(* it starts with.  Parts have distinct texts.  Times of single statements *)
(* are in ten-thousandths of a second (round(.., 4) of line 264), totals   *)
(* in hundredths (round(.., 2)).  Statements do not raise.                 *)
(***************************************************************************)
MaxStatements == 3    \* parts of a script
MaxOlapCalls == 3     \* execute_olap calls on one driver

\* what a part is after strip() and lower(): blank, or starting with
\* 'create view', with 'drop view', or with anything else
PartKinds == {"blank", "create", "drop", "other"}

Scripts == UNION {[1..n -> PartKinds] : n \in 0..MaxStatements}

\* [p.strip() for p in f.read().split(';') if p.strip()], as positions
RECURSIVE PartsFrom(_, _)
PartsFrom(script, i) ==
    IF i > Len(script) THEN <<>>
    ELSE (IF script[i] = "blank" THEN <<>> ELSE <<i>>) \o PartsFrom(script, i + 1)

\* the grouping loop: each unit is the sequence of the positions joined into it
RECURSIVE GroupFrom(_, _, _, _, _, _)
GroupFrom(script, parts, i, in_view, buffer, queries) ==
    IF i > Len(parts) THEN queries
    ELSE LET part == parts[i]
             low == script[part]
         IN  IF low = "create"
             THEN GroupFrom(script, parts, i + 1, TRUE, <<part>>, queries)
             ELSE IF in_view
             THEN IF low = "drop"
                  THEN GroupFrom(script, parts, i + 1, FALSE, <<>>,
                                 Append(queries, Append(buffer, part)))
                  ELSE GroupFrom(script, parts, i + 1, TRUE, Append(buffer, part),
                                 queries)
             ELSE GroupFrom(script, parts, i + 1, FALSE, buffer,
                            Append(queries, <<part>>))

Queries(script) == GroupFrom(script, PartsFrom(script, 1), 1, FALSE, <<>>, <<>>)

\* what _execute_single_query may return for a unit
QueryTimes == {120, 260}

\* what the loop of the full run takes beyond the statements themselves
Overheads == {0, 40}

\* constructor argument budget_allocator
BudgetChoices == {0 - 5, 0, 60, 100, 120}

\* sum(times[q] for q in S)
RECURSIVE SumOver(_, _)
SumOver(times, S) ==
    IF S = {} THEN 0
    ELSE LET q == CHOOSE x \in S : TRUE
         IN  times[q] + SumOver(times, S \ {q})

\* max(0, min(100, budget_allocator))
Pct(budget_allocator) == Max(0, Min(100, budget_allocator))

\* max(1, int(len(queries) * pct / 100))
SampleCount(n, pct) == Max(1, (n * pct) \div 100)

\* self.best_olap_times.get(q, 0) for every unit
BestTimes(drv, n) ==
    [q \in 1..n |-> IF q \in DOMAIN drv.best_olap_times THEN drv.best_olap_times[q]
                    ELSE 0]

\* round(total_best * ratio, 2), ratio = sample_total / sampled_best if sampled_best else 1
Estimate(drv, n, sampled, sample_total) ==
    LET total_best == SumOver(BestTimes(drv, n), 1..n)
        sampled_best == SumOver(BestTimes(drv, n), sampled)
    IN  IF sampled_best # 0 THEN RoundHalfEven(total_best * sample_total, sampled_best)
        ELSE RoundHalfEven(total_best, 100)

\* a short-circuit that does not skip at equality
ShortCircuitStrict(drv, sampling, est) ==
    sampling /\ drv.best_total_time # None /\ est > drv.best_total_time

\* a short-circuit that does not ask for a baseline
ShortCircuitNoBaseline(drv, sampling, est) ==
    sampling /\ est >= drv.best_total_time

\* inside 0 < pct < 100: self.best_total_time is not None and est >= self.best_total_time
ShortCircuit(drv, sampling, est) ==
    sampling /\ drv.best_total_time # None /\ est >= drv.best_total_time

\* a baseline test that also takes a run equal to the baseline
ImprovedOrEqual(drv, full_total) ==
    drv.best_total_time = None \/ full_total <= drv.best_total_time

\* self.best_total_time is None or full_total < self.best_total_time
Improved(drv, full_total) ==
    drv.best_total_time = None \/ full_total < drv.best_total_time

\* lines 308-332: the sample, its total, the estimate and the decision
SampleStage(drv, n, sampled, sample_times) ==
    LET pct == Pct(drv.budget_allocator)
        sampling == 0 < pct /\ pct < 100
        sample_total == IF sampling THEN RoundHalfEven(SumOver(sample_times, sampled), 100)
                        ELSE 0
        est == IF sampling THEN Estimate(drv, n, sampled, sample_total) ELSE None
    IN  [pct |-> pct,
         sampled |-> IF sampling THEN sampled ELSE {},
         sample_total |-> sample_total,
         est |-> est,
         short |-> ShortCircuit(drv, sampling, est)]

\* the call on a script with units: the units sampled, the times they take,
\* the times of the full run and its overhead are the inputs; a call that
\* returns the estimate reads neither of the last two
execute_olap(drv, n, sampled, sample_times, full_times, overhead) ==
    LET stage == SampleStage(drv, n, sampled, sample_times)
        full_total == RoundHalfEven(SumOver(full_times, 1..n) + overhead, 100)
    IN  [pct |-> stage.pct,
         sampled |-> stage.sampled,
         sample_total |-> stage.sample_total,
         est |-> stage.est,
         full |-> IF stage.short THEN {} ELSE 1..n,
         full_times |-> IF stage.short THEN <<>> ELSE full_times,
         full_total |-> IF stage.short THEN None ELSE full_total,
         ret |-> IF stage.short THEN stage.est ELSE full_total,
         after |-> IF ~stage.short /\ Improved(drv, full_total)
                   THEN [drv EXCEPT !.best_total_time = full_total,
                                    !.best_olap_times = full_times]
                   ELSE drv]

\* the subsets random.sample(queries, count) may return
Samples(n, pct) ==
    IF 0 < pct /\ pct < 100
    THEN {S \in SUBSET (1..n) : Cardinality(S) = SampleCount(n, pct)}
    ELSE {{}}

InitOlap ==
    /\ pc = "olap"
    /\ \E b \in BudgetChoices : driver = [NoDriver EXCEPT !.budget_allocator = b]
    /\ \E s \in Scripts : olp = [called |-> FALSE, n |-> 0, script |-> s]
    /\ evl = NoEvaluation
    /\ lod = NoLoad
    /\ ksl = NoSelection
    /\ nzr = NoNormCall
    /\ bandit = NoBandit
    /\ bop = NoBanditOp
    /\ flags = NoFlags
    /\ is_random = 0
    /\ total_iterations = 0
    /\ overall_iters = 0
    /\ current_knobs = <<>>
    /\ frozen_values = <<>>
    /\ updated_knobs_num = 0
    /\ x0 = NoHistory
    /\ csv = NoHistory
    /\ round = NoRound
    /\ selector = None
    /\ best_result = NoBest
    /\ cyc = NoCycle
    /\ utk = NoCall

\* one call of execute_olap on the script of the run
ExecuteOlap ==
    /\ pc = "olap"
    /\ olp.n < MaxOlapCalls
    /\ LET queries == Queries(olp.script)
           n == Len(queries)
       IN  IF n = 0
           THEN /\ olp' = [called |-> TRUE, n |-> olp.n + 1, script |-> olp.script,
                           queries |-> queries, before |-> driver,
                           res |-> [pct |-> None, sampled |-> {}, sample_total |-> 0,
                                    est |-> None, full |-> {}, full_times |-> <<>>,
                                    full_total |-> None, ret |-> 0, after |-> driver]]
                /\ UNCHANGED driver
           ELSE \E sampled \in Samples(n, Pct(driver.budget_allocator)) :
                \E sample_times \in [sampled -> QueryTimes] :
                \E full_times \in
                       (IF SampleStage(driver, n, sampled, sample_times).short
                        THEN {<<>>} ELSE [1..n -> QueryTimes]) :
                \E overhead \in
                       (IF full_times = <<>> THEN {0} ELSE Overheads) :
                    LET res == execute_olap(driver, n, sampled, sample_times,
                                            full_times, overhead)
                    IN  /\ olp' = [called |-> TRUE, n |-> olp.n + 1,
                                   script |-> olp.script, queries |-> queries,
                                   before |-> driver, res |-> res]
                        /\ driver' = res.after
    /\ UNCHANGED <<pc, flags, is_random, total_iterations, overall_iters, current_knobs,
                   frozen_values, updated_knobs_num, x0, csv, round, selector, bandit,
                   best_result, cyc, utk, bop, nzr, evl, lod, ksl>>

SpecOlap == InitOlap /\ [][ExecuteOlap]_vars

(***************************************************************************)
(* One round of the optimizer on its own: run_optimization_iteration hands *)
(* objective_func and the LoggingCallback to gp_minimize, which asks for   *)
(* n_calls points, evaluates objective_func on each and calls the callback *)
(* after it.  Whether the library also calls the callback once after       *)
(* taking in the warm-start points is left open: both happen.              *)
(***************************************************************************)
MaxEvals == 3         \* n_calls of a round

Penalty == 1000000000 \* the 1e9 returned when the configuration cannot be applied

\* what the benchmark measures: transactions per second, or seconds for tpch
Throughputs == {10, 20}

\* config_dict of objective_func: denormalize(norm_values), then for every knob the
\* normalizer does not name its frozen value, else its default
ObjectiveConfig(n, knobs, vec, frozen) ==
    LET config_dict == Denormalize(knobs, vec).cfg
    IN  [k \in 1..n |->
           IF k \in Range(knobs) THEN config_dict[k]
           ELSE IF k \in DOMAIN frozen THEN frozen[k]
           ELSE full_knob_dict(k).default]

\* an objective that measures whether or not the configuration was applied
ObjectiveValueNoPenalty(debug, benchmark, success, measured) ==
    IF ~debug /\ benchmark = "tpch" THEN measured ELSE 0 - measured

\* what objective_func returns
ObjectiveValue(debug, benchmark, success, measured) ==
    IF debug THEN 0 - measured
    ELSE IF ~success THEN Penalty
    ELSE IF benchmark = "tpch" THEN measured
    ELSE 0 - measured

\* objective_func: the configuration built, whether it was handed to the driver,
\* whether the benchmark ran, and the value returned
objective_func(n, knobs, vec, frozen, debug, benchmark, success, measured) ==
    [config |-> ObjectiveConfig(n, knobs, vec, frozen),
     applied |-> ~debug,
     ran |-> ~debug /\ success,
     y |-> ObjectiveValue(debug, benchmark, success, measured)]

\* a row that takes the default of every knob not tuned
LoggedConfigDefaults(n, knobs, vec, frozen) ==
    LET current_cfg == Denormalize(knobs, vec).cfg
    IN  [k \in 1..n |->
           IF k \in DOMAIN current_cfg THEN current_cfg[k]
           ELSE full_knob_dict(k).default]

\* combined of LoggingCallback.__call__
LoggedConfig(n, knobs, vec, frozen) ==
    LET current_cfg == Denormalize(knobs, vec).cfg
    IN  [k \in 1..n |->
           IF k \in DOMAIN current_cfg THEN current_cfg[k]
           ELSE IF k \in DOMAIN frozen THEN frozen[k]
           ELSE full_knob_dict(k).default]

\* the row LoggingCallback.__call__ appends for a result whose last point is x, y
LoggedRow(n, knobs, frozen, x_len, x, y) ==
    [iteration |-> x_len, tps |-> 0 - y, cfg |-> LoggedConfig(n, knobs, x, frozen)]

\* frozen_values over the knobs not tuned: each absent or at a value of its range
FrozenChoices(knobs) ==
    LET rest == (1..NKnobs) \ Range(knobs)
    IN  UNION {[S -> 0..2] : S \in SUBSET rest}

NoLast == [kind |-> "none"]

InitEval ==
    /\ pc = "eval"
    /\ \E n \in 1..NKnobs : \E knobs \in InjSeqs(1..NKnobs, n) :
       \E frozen \in {f \in FrozenChoices(knobs) :
                         \A k \in DOMAIN f : f[k] \in full_knob_dict(k).min..full_knob_dict(k).max} :
       \E mode \in {"debug", "sysbench", "tpch"} : \E warm \in BOOLEAN :
           evl = [n |-> 0, n_calls |-> MaxEvals, knobs |-> knobs, frozen |-> frozen,
                  debug |-> mode = "debug",
                  benchmark |-> IF mode = "tpch" THEN "tpch" ELSE "sysbench",
                  x0_len |-> IF warm THEN PriorRows ELSE 0,
                  x0_last |-> IF warm THEN [i \in 1..n |-> GridDen] ELSE <<>>,
                  y0_last |-> IF warm THEN PriorBest ELSE 0,
                  told |-> FALSE, rows |-> 0, failed |-> FALSE, last |-> NoLast]
    /\ driver = NoDriver
    /\ olp = NoOlapCall
    /\ lod = NoLoad
    /\ ksl = NoSelection
    /\ nzr = NoNormCall
    /\ bandit = NoBandit
    /\ bop = NoBanditOp
    /\ flags = NoFlags
    /\ is_random = 0
    /\ total_iterations = 0
    /\ overall_iters = 0
    /\ current_knobs = <<>>
    /\ frozen_values = <<>>
    /\ updated_knobs_num = 0
    /\ x0 = NoHistory
    /\ csv = NoHistory
    /\ round = NoRound
    /\ selector = None
    /\ best_result = NoBest
    /\ cyc = NoCycle
    /\ utk = NoCall

\* the callback called on the warm-start points, before any evaluation
TellWarmStart ==
    /\ pc = "eval"
    /\ evl.x0_len > 0 /\ evl.n = 0 /\ ~evl.told
    /\ evl' = [evl EXCEPT
                 !.told = TRUE,
                 !.rows = @ + 1,
                 !.last = [kind |-> "told",
                           row |-> LoggedRow(NKnobs, evl.knobs, evl.frozen, evl.x0_len,
                                             evl.x0_last, evl.y0_last)]]
    /\ UNCHANGED <<pc, flags, is_random, total_iterations, overall_iters, current_knobs,
                   frozen_values, updated_knobs_num, x0, csv, round, selector, bandit,
                   best_result, cyc, utk, bop, nzr, driver, olp, lod, ksl>>

\* one evaluation: the point asked, objective_func on it, the callback on the result
Evaluate ==
    /\ pc = "eval"
    /\ evl.n < evl.n_calls
    /\ \E vec \in Vectors(Len(evl.knobs)) : \E success \in BOOLEAN :
       \E measured \in (IF success \/ evl.debug THEN Throughputs ELSE {0}) :
           LET o == objective_func(NKnobs, evl.knobs, vec, evl.frozen, evl.debug,
                                   evl.benchmark, success, measured)
           IN  evl' = [evl EXCEPT
                         !.n = @ + 1,
                         !.rows = @ + 1,
                         !.failed = @ \/ (o.applied /\ ~o.ran),
                         !.last = [kind |-> "eval", x |-> vec, config |-> o.config,
                                   applied |-> o.applied,
                                   failed |-> o.applied /\ ~success,
                                   ran |-> o.ran, y |-> o.y,
                                   after_fail |-> evl.failed,
                                   n_before |-> evl.n, rows_before |-> evl.rows,
                                   row |-> LoggedRow(NKnobs, evl.knobs, evl.frozen,
                                                     evl.x0_len + evl.n + 1, vec, o.y)]]
    /\ UNCHANGED <<pc, flags, is_random, total_iterations, overall_iters, current_knobs,
                   frozen_values, updated_knobs_num, x0, csv, round, selector, bandit,
                   best_result, cyc, utk, bop, nzr, driver, olp, lod, ksl>>

NextEval == TellWarmStart \/ Evaluate

SpecEval == InitEval /\ [][NextEval]_vars

(***************************************************************************)
(* utils.load_intermediate_data called on its own, on a log written by     *)
(* LoggingCallback: each row holds the objective and, for the knobs of its *)
(* header, a value of the knob's range.  The csv reader returns text: an   *)
(* integer comes back through float(), a boolean ('OFF', 'ON') stays text. *)
(***************************************************************************)
MaxLogRows == 2       \* rows of a log

\* the dictionary of the loads: that of the Normalizer calls, and a second wide knob
LoadKnobDict ==
    [k \in DOMAIN UnitKnobDict \cup {"V"} |->
       IF k = "V" THEN [kind |-> "integer", min |-> 1, max |-> MantissaTop + 47,
                        default |-> 1]
       ELSE UnitKnobDict[k]]

\* tuned_knob_list
LoadNames == {<<"A">>, <<"V">>, <<"D">>, <<"E">>, <<"A", "B">>, <<"N", "W">>}

\* the values a row may hold for a knob: those the run logs, and for a boolean
\* knob a value (2) that is neither of its two
LoggedValues(k) ==
    LET d == LoadKnobDict[k]
    IN  {d.min, d.default, d.max} \cup (IF d.kind = "boolean" THEN {2} ELSE {})

\* x / y on floats, y > 0
FlDiv(x, y) == FlRound(x.n * y.d, x.d * y.n)

\* Normalizer.normalize, the body of the loop, on what load_intermediate_data put
\* in the config: a float for text that float() takes, else the text
normalize_loaded(d, real_value) ==
    IF d.kind = "integer"
    THEN IF d.max = d.min THEN [err |-> "ValueError", val |-> Rat(0, 1)]
         ELSE [err |-> "",
               val |-> FlDiv(FlAdd(real_value.val, FlOfInt(0 - d.min)),
                             FlOfInt(d.max - d.min))]
    ELSE IF d.kind = "boolean"
    THEN IF real_value.kind = "str" /\ real_value.val = d.min
         THEN [err |-> "", val |-> Rat(0, 1)]
         ELSE IF real_value.kind = "str" /\ real_value.val = d.max
         THEN [err |-> "", val |-> Rat(1, 1)]
         ELSE [err |-> "ValueError", val |-> Rat(0, 1)]
    ELSE [err |-> "NotImplementedError", val |-> Rat(0, 1)]

\* config[knob] of a row: float(row[..]), str(row[..]) when float() fails, 0.0
\* when the header has no such column
LoadedValue(header, row, knob) ==
    IF knob \notin header THEN [kind |-> "float", val |-> Rat(0, 1)]
    ELSE IF LoadKnobDict[knob].kind = "boolean" THEN [kind |-> "str", val |-> row.cfg[knob]]
    ELSE [kind |-> "float", val |-> FlOfInt(row.cfg[knob])]

\* lines 90-92: normalizer.normalize(config) raised on the row
NormalizeRaised(tuned_knob_list, header, row) ==
    \E i \in DOMAIN tuned_knob_list :
        normalize_loaded(LoadKnobDict[tuned_knob_list[i]],
                         LoadedValue(header, row, tuned_knob_list[i])).err # ""

\* norm_values of a row: normalizer.normalize(config), or zeros when it raises
LoadedVector(tuned_knob_list, header, row) ==
    LET one(i) == normalize_loaded(LoadKnobDict[tuned_knob_list[i]],
                                   LoadedValue(header, row, tuned_knob_list[i]))
    IN  IF NormalizeRaised(tuned_knob_list, header, row)
        THEN [i \in DOMAIN tuned_knob_list |-> Rat(0, 1)]
        ELSE [i \in DOMAIN tuned_knob_list |-> one(i).val]

\* load_intermediate_data: rows whose TPS float() does not take are skipped
RECURSIVE LoadFrom(_, _, _, _)
LoadFrom(tuned_knob_list, header, rows, i) ==
    IF i > Len(rows) THEN [x0 |-> <<>>, y0 |-> <<>>]
    ELSE LET rest == LoadFrom(tuned_knob_list, header, rows, i + 1)
         IN  IF ~rows[i].tps_ok THEN rest
             ELSE [x0 |-> <<LoadedVector(tuned_knob_list, header, rows[i])>> \o rest.x0,
                   y0 |-> <<0 - rows[i].tps>> \o rest.y0]

load_intermediate_data(tuned_knob_list, header, rows) ==
    LoadFrom(tuned_knob_list, header, rows, 1)

InitLoad ==
    /\ pc = "load"
    /\ \E tuned \in LoadNames : \E missing \in {0, 1} : \E n \in 0..MaxLogRows :
       LET header == Range(tuned) \ (IF missing = 1 THEN {tuned[1]} ELSE {})
       IN  \E rows \in [1..n -> {r \in [tps_ok : BOOLEAN, tps : {10},
                                        cfg : [header -> UNION {LoggedValues(k) : k \in header}]] :
                                    \A k \in header : r.cfg[k] \in LoggedValues(k)}] :
               lod = [called |-> FALSE, tuned |-> tuned, header |-> header, rows |-> rows]
    /\ driver = NoDriver
    /\ olp = NoOlapCall
    /\ evl = NoEvaluation
    /\ nzr = NoNormCall
    /\ bandit = NoBandit
    /\ bop = NoBanditOp
    /\ flags = NoFlags
    /\ is_random = 0
    /\ total_iterations = 0
    /\ overall_iters = 0
    /\ current_knobs = <<>>
    /\ frozen_values = <<>>
    /\ updated_knobs_num = 0
    /\ x0 = NoHistory
    /\ csv = NoHistory
    /\ round = NoRound
    /\ selector = None
    /\ best_result = NoBest
    /\ cyc = NoCycle
    /\ utk = NoCall
    /\ ksl = NoSelection

\* the load at the start of a run or after a change of the tuned set; main takes
\* an empty result for no history (main.py line 376)
LoadIntermediateData ==
    /\ pc = "load"
    /\ ~lod.called
    /\ LET r == load_intermediate_data(lod.tuned, lod.header, lod.rows)
       IN  lod' = [lod EXCEPT !.called = TRUE] @@
                  [x0 |-> r.x0, y0 |-> r.y0, absent |-> r.x0 = <<>> \/ r.y0 = <<>>,
                   raised |-> {i \in DOMAIN lod.rows :
                                 /\ lod.rows[i].tps_ok
                                 /\ NormalizeRaised(lod.tuned, lod.header, lod.rows[i])},
                   err |-> ""]
    /\ UNCHANGED <<pc, flags, is_random, total_iterations, overall_iters, current_knobs,
                   frozen_values, updated_knobs_num, x0, csv, round, selector, bandit,
                   best_result, cyc, utk, bop, nzr, driver, olp, evl, ksl>>

SpecLoad == InitLoad /\ [][LoadIntermediateData]_vars

(***************************************************************************)
(* tuner/knob_selection.py : IncrementalSupportMask called on its own, for *)
(* any n_features, step and initial within the bounds.  selector holds the *)
(* instance (n_features, step, selected); ksl holds the number of calls    *)
(* made, the last mask and the number of True entries of every call.       *)
(***************************************************************************)
MaxFeatures == 6
MaxStep == 3
MaxInitial == 4
MaxMaskCalls == 4

\* a faulty variant of __init__: selected starts at initial
IncrementalSupportMaskNoOffset(n_features, step, initial) ==
    [n_features |-> n_features, step |-> step, selected |-> initial]

\* __init__ (lines 22-25)
IncrementalSupportMask(n_features, step, initial) ==
    [n_features |-> n_features, step |-> step, selected |-> initial - step]

\* __call__ (lines 27-30): the instance after the call, and the mask returned
IncrementalSupportMaskCall(self) ==
    LET selected == Min(self.selected + self.step, self.n_features)
    IN  [self |-> [self EXCEPT !.selected = selected],
         mask |-> [i \in 1..self.n_features |-> i - 1 < selected]]

InitMask ==
    /\ pc = "mask"
    /\ \E n_features \in 0..MaxFeatures, step \in 1..MaxStep, initial \in 0..MaxInitial :
         /\ selector = IncrementalSupportMask(n_features, step, initial)
         /\ ksl = [calls |-> 0, initial |-> initial, mask |-> <<>>, counts |-> <<>>]
    /\ flags = NoFlags
    /\ is_random = 0
    /\ total_iterations = 0
    /\ overall_iters = 0
    /\ current_knobs = <<>>
    /\ frozen_values = <<>>
    /\ updated_knobs_num = 0
    /\ x0 = NoHistory
    /\ csv = NoHistory
    /\ round = NoRound
    /\ bandit = NoBandit
    /\ best_result = NoBest
    /\ cyc = NoCycle
    /\ utk = NoCall
    /\ bop = NoBanditOp
    /\ nzr = NoNormCall
    /\ driver = NoDriver
    /\ olp = NoOlapCall
    /\ evl = NoEvaluation
    /\ lod = NoLoad

\* selector()
CallMask ==
    /\ pc = "mask"
    /\ ksl.calls < MaxMaskCalls
    /\ LET r == IncrementalSupportMaskCall(selector)
       IN  /\ selector' = r.self
           /\ ksl' = [ksl EXCEPT !.calls = @ + 1, !.mask = r.mask,
                                 !.counts = Append(@, CountTrue(r.mask))]
    /\ UNCHANGED <<pc, flags, is_random, total_iterations, overall_iters, current_knobs,
                   frozen_values, updated_knobs_num, x0, csv, round, bandit,
                   best_result, cyc, utk, bop, nzr, driver, olp, evl, lod>>

SpecMask == InitMask /\ [][CallMask]_vars

(***************************************************************************)
(* tuner/knob_selection.py : eliminate_with_scipy_ttest called on its own. *)
(* X is kept by its columns, one per knob, each a sequence of n_samples    *)
(* normalised values (numerators over SEValues' largest).  Y enters only   *)
(* through ttest_ind, whose verdict p_value <= alpha is the statistics'    *)
(* choice: any boolean per knob tested.                                    *)
(***************************************************************************)
MaxSamples == 4

SEColumns == {1, 2}

SEValues == {0, 1, 2}

\* the k-th smallest entry of vals, k in 1..Len(vals)
KthSmallest(vals, k) ==
    CHOOSE v \in Range(vals) :
        /\ Cardinality({i \in DOMAIN vals : vals[i] < v}) < k
        /\ Cardinality({i \in DOMAIN vals : vals[i] <= v}) >= k

\* twice np.median(vals): the middle entry, or the mean of the two middle ones
TwiceMedian(vals) ==
    LET n == Len(vals)
    IN  IF n % 2 = 1 THEN 2 * KthSmallest(vals, (n + 1) \div 2)
        ELSE KthSmallest(vals, n \div 2) + KthSmallest(vals, n \div 2 + 1)

\* low_mask (line 39): the samples at or below the median
LowMask(vals) == {i \in DOMAIN vals : 2 * vals[i] <= TwiceMedian(vals)}

\* a faulty variant of line 41: only the low group's size looked at
TooFewLowOnly(Y_low_size, Y_high_size) == Y_low_size < 2

\* line 41
TooFew(Y_low_size, Y_high_size) == Y_low_size < 2 \/ Y_high_size < 2

\* the knobs ttest_ind is run on (lines 41-45)
Tested(X) ==
    {k \in DOMAIN X :
        ~TooFew(Cardinality(LowMask(X[k])), Len(X[k]) - Cardinality(LowMask(X[k])))}

\* eliminate_with_scipy_ttest: support_mask, given the verdicts of the tests run
eliminate_with_scipy_ttest(X, verdict) ==
    [k \in DOMAIN X |-> IF k \in Tested(X) THEN verdict[k] ELSE TRUE]

InitSE ==
    /\ pc = "SE"
    /\ \E n_samples \in 1..MaxSamples, n_features \in SEColumns :
         \E X \in [1..n_features -> [1..n_samples -> SEValues]] :
             ksl = [calls |-> 0, X |-> X]
    /\ selector = None
    /\ flags = NoFlags
    /\ is_random = 0
    /\ total_iterations = 0
    /\ overall_iters = 0
    /\ current_knobs = <<>>
    /\ frozen_values = <<>>
    /\ updated_knobs_num = 0
    /\ x0 = NoHistory
    /\ csv = NoHistory
    /\ round = NoRound
    /\ bandit = NoBandit
    /\ best_result = NoBest
    /\ cyc = NoCycle
    /\ utk = NoCall
    /\ bop = NoBanditOp
    /\ nzr = NoNormCall
    /\ driver = NoDriver
    /\ olp = NoOlapCall
    /\ evl = NoEvaluation
    /\ lod = NoLoad

\* eliminate_with_scipy_ttest(X_all, y_all, alpha=0.05)
CallSE ==
    /\ pc = "SE"
    /\ ksl.calls = 0
    /\ \E verdict \in [Tested(ksl.X) -> BOOLEAN] :
         ksl' = [calls |-> 1, X |-> ksl.X, tested |-> Tested(ksl.X),
                 mask |-> eliminate_with_scipy_ttest(ksl.X, verdict)]
    /\ UNCHANGED <<pc, flags, is_random, total_iterations, overall_iters, current_knobs,
                   frozen_values, updated_knobs_num, x0, csv, round, selector, bandit,
                   best_result, cyc, utk, bop, nzr, driver, olp, evl, lod>>

SpecSE == InitSE /\ [][CallSE]_vars

(***************************************************************************)
(* The properties checked.                                                 *)
(***************************************************************************)

\* the exclusive strategy flags a configuration sets
ExclusiveSet == {n \in Exclusive : flags[n] = 1}

\* the six keyword flags of the last update_tuned_knobs call are all 0
DefaultPolicyCall ==
    /\ utk.f.is_incremental = 0 /\ utk.f.is_SE = 0 /\ utk.f.is_bandit = 0
    /\ utk.f.is_TS = 0 /\ utk.f.is_LRT = 0 /\ utk.f.is_pure_incremental = 0

\* the last update_tuned_knobs call ran a bandit-gated policy on a bandit's action
BanditGatedCall ==
    /\ utk.f.is_incremental = 0 /\ utk.f.is_SE = 0
    /\ utk.f.is_bandit = 1 \/ utk.f.is_TS = 1 \/ utk.f.is_LRT = 1
    /\ utk.bandit_choice \in {0, 1}

\* of the last update_tuned_knobs call: the mask bit of every tuned knob is True
AllImportant == \A i \in DOMAIN utk.mask : utk.mask[i]

\* of the last call: the knobs of the dictionary neither tuned nor frozen
UnusedKeys == (1..utk.n_keys) \ (Range(utk.current) \cup utk.frozen_keys)

\* of the last call: the tuned knobs whose mask bit is True, in order
KeptKnobs == SelectSeq(utk.current, LAMBDA k : \E i \in DOMAIN utk.current :
                                                   utk.current[i] = k /\ utk.mask[i])

\* of the last call: what the returned list holds after the kept knobs
AddedKnobs == SubSeq(utk.new_list, Len(KeptKnobs) + 1, Len(utk.new_list))

\* C1: update_tuned_knobs returns changed = True whenever the list it returns
\* differs from the current tuned list, for every policy and every mask.
C1_ChangedWheneverDifferent ==
    utk.called => (utk.new_list # utk.current => utk.updated)

\* C2: for every accepted flag combination and every budget the round loop
\* reaches its terminal state: no round ends the run short of it, every round
\* that ran made the cumulative number of calls strictly larger, and the loop
\* stops with the cumulative number equal to the configured total.
C2_RoundLoopReachesTotal ==
    Cardinality(ExclusiveSet) <= 1 =>
        /\ pc # "crashed"
        /\ pc = "select" => round.n_calls > 0
        /\ pc = "done" => overall_iters = total_iterations

\* C3: whenever two or more of is_basic, is_incremental, is_SE, is_bandit are
\* set, the run aborts before any benchmark evaluation: no call is ever made.
C3_ConflictAbortsBeforeBenchmark ==
    Cardinality(ExclusiveSet) >= 2 => overall_iters = 0 /\ csv.rows \in {0, PriorRows}

\* C4: after every round, for every policy, the feature-selection cycle runs to
\* its return without raising an error.
C4_CycleNeverRaises ==
    cyc.ran => cyc.err = ""

\* C5: after a cycle, every knob that was tuned before it and is not tuned after
\* it is a key of frozen_values, holding the value it had in the logged
\* observation of minimum objective; this holds until the next cycle.
C5_DroppedKnobsFrozenAtBest ==
    (cyc.ran /\ cyc.err = "") =>
        \A k \in Range(cyc.prev_knobs) \ Range(current_knobs) :
            k \in DOMAIN frozen_values /\ frozen_values[k] = cyc.best_row[k]

\* C5, its case: a cycle dropped a knob whose best observed value is not its
\* default, and the knob is frozen.
C5_KnobDroppedAndFrozen ==
    /\ cyc.ran /\ cyc.err = ""
    /\ \E k \in Range(cyc.prev_knobs) \ Range(current_knobs) :
         /\ k \in DOMAIN frozen_values
         /\ cyc.best_row[k] # full_knob_dict(k).default

\* C6: in a run with one bandit policy active, each round performs exactly one
\* bandit.update followed by exactly one bandit.select; no update but the run's
\* first finds the pending decision empty, the update clears it, and the select
\* leaves its action pending.
C6_OneUpdateThenOneSelect ==
    (/\ cyc.ran
     /\ flags.is_bandit + flags.is_TS + flags.is_LRT = 1
     /\ flags.is_incremental = 0 /\ flags.is_SE = 0) =>
        /\ Len(cyc.ops) = 2
        /\ cyc.ops[1].op = "update" /\ cyc.ops[2].op = "select"
        /\ cyc.round_no > 1 => cyc.ops[1].pending
        /\ ~cyc.ops[2].pending
        /\ Pending(bandit)

\* C7: for each of the three bandit classes, update(reward) called while no
\* select is pending leaves every accumulator and the pending decision as they
\* were (update has no path that raises).
C7_UpdateWithoutSelectIsNoOp ==
    (bop.op = "update" /\ ~Pending(bop.before)) => bandit = bop.before

\* C7, its case: an update directly after an update that did attribute a reward.
C7_UpdateAfterUpdate ==
    /\ bop.op = "update" /\ bop.prev = "update" /\ ~Pending(bop.before)
    /\ bop.before \notin {NewTwoActionLRT, NewTwoActionTS, NewContextualTS}
    /\ bop.reward > 0

\* C8: under the default policy, non-random, the returned list has
\* floor(1.5 n) knobs when all n tuned knobs are important and
\* count(True) + 1 when not all are, or the kept knobs and every unused knob
\* when fewer unused knobs remain than that needs.
C8_DefaultPolicySize ==
    (utk.called /\ DefaultPolicyCall /\ utk.is_random = 0) =>
        LET n      == Len(utk.current)
            target == IF AllImportant THEN (3 * n) \div 2 ELSE CountTrue(utk.mask) + 1
        IN  Len(utk.new_list) =
                Min(target, CountTrue(utk.mask) + Cardinality(UnusedKeys))

\* C8, its case: ten tuned knobs, all important, grow to fifteen.
C8_TenGrowToFifteen ==
    /\ utk.called /\ DefaultPolicyCall /\ utk.is_random = 0
    /\ Len(utk.current) = 10 /\ AllImportant
    /\ Len(utk.new_list) = 15

\* C9: under a bandit-gated policy with signal b in {0, 1} the returned list is
\* the kept knobs followed by min(5 b, number of unused knobs) new knobs: the
\* target is count(True) + 5 b, which is the current size + 5 b when every
\* tuned knob is important.
C9_BanditGatedSize ==
    (utk.called /\ BanditGatedCall) =>
        /\ SubSeq(utk.new_list, 1, Len(KeptKnobs)) = KeptKnobs
        /\ Len(AddedKnobs) = Min(5 * utk.bandit_choice, Cardinality(UnusedKeys))
        /\ (AllImportant /\ Cardinality(UnusedKeys) >= 5 * utk.bandit_choice) =>
               Len(utk.new_list) = Len(utk.current) + 5 * utk.bandit_choice

\* C9, its case: the bandit chose 1, some tuned knob is not important, and five
\* knobs were added.
C9_FiveAdded ==
    /\ utk.called /\ BanditGatedCall /\ utk.bandit_choice = 1
    /\ ~AllImportant
    /\ Len(AddedKnobs) = 5

\* C10: every knob update_tuned_knobs adds is neither tuned nor frozen; on the
\* non-random path the added knobs are the first unused knobs in dictionary
\* order; so a tuned list without duplicates, of names of the dictionary, is
\* returned as one.
C10_AddedKnobsAreUnused ==
    utk.called =>
        /\ \A i \in DOMAIN AddedKnobs : AddedKnobs[i] \in UnusedKeys
        /\ utk.is_random = 0 =>
              \A i \in DOMAIN AddedKnobs :
                  Cardinality({k \in UnusedKeys : k <= AddedKnobs[i]}) = i
        /\ \A i, j \in DOMAIN utk.new_list : i # j => utk.new_list[i] # utk.new_list[j]
        /\ Range(utk.new_list) \subseteq 1..utk.n_keys

\* C10, its case: a non-random call dropped a tuned knob and added knobs,
\* skipping a frozen knob that comes before them in the dictionary.
C10_AddedSkipsFrozen ==
    /\ utk.called /\ utk.is_random = 0
    /\ Len(AddedKnobs) >= 1
    /\ \E k \in utk.frozen_keys : k < AddedKnobs[1]
    /\ \E k \in Range(utk.current) : ~(\E i \in DOMAIN utk.new_list : utk.new_list[i] = k)

\* C11: TwoActionLRT.select returns 1 iff the success rate of action 1 is
\* strictly greater than that of action 0, and 0 otherwise (ties and the fresh
\* instance included); it is decided by the counters alone and changes none.
C11_LRTSelectByRates ==
    (bop.op = "select" /\ bop.before.kind = "LRT") =>
        LET s == bop.before.success
            f == bop.before.failure
        IN  /\ bandit.last_action =
                 (IF s[2] * (s[1] + f[1]) > s[1] * (s[2] + f[2]) THEN 1 ELSE 0)
            /\ bandit.success = s /\ bandit.failure = f

\* C11, its case: a select on counters that favour action 1 returns 1.
C11_SelectReturnsOne ==
    /\ bop.op = "select" /\ bop.before.kind = "LRT"
    /\ bop.before.success # bop.before.failure
    /\ bandit.last_action = 1

\* C12: for TwoActionTS and ContextualTS, update(r) after a select adds r to
\* alpha and 1 - r to beta of the selected action (of the selected context and
\* action), changes no other accumulator, and clears the pending decision.
C12_UpdateCreditsSelected ==
    (bop.op = "update" /\ Pending(bop.before) /\ bop.before.kind \in {"TS", "CTS"}) =>
        LET a == bop.before.last_action + 1
            r == bop.reward
        IN  /\ ~Pending(bandit) /\ bandit.last_action = None
            /\ bop.before.kind = "TS" =>
                 \A i \in 1..2 :
                   /\ bandit.alpha[i] = bop.before.alpha[i] + (IF i = a THEN r ELSE 0)
                   /\ bandit.beta[i] = bop.before.beta[i] + (IF i = a THEN RewardDen - r ELSE 0)
            /\ bop.before.kind = "CTS" =>
                 /\ bandit.last_context = None
                 /\ \A c, i \in 1..2 :
                      LET hit == c = bop.before.last_context + 1 /\ i = a
                      IN  /\ bandit.alpha[c][i] =
                                bop.before.alpha[c][i] + (IF hit THEN r ELSE 0)
                          /\ bandit.beta[c][i] =
                                bop.before.beta[c][i] + (IF hit THEN RewardDen - r ELSE 0)

\* C12, its case: a ContextualTS credited a reward strictly between 0 and 1 to a
\* decision taken under context 1, other rewards having been credited before.
C12_ContextualUpdate ==
    /\ bop.op = "update" /\ bop.before.kind = "CTS" /\ Pending(bop.before)
    /\ bop.before.last_context = 1
    /\ bop.reward = RewardHalf
    /\ bop.before.alpha # NewContextualTS.alpha

\* C13: TwoActionLRT.reward computes improvement_per_step as the TS variants
\* do, (cur_perf - best_perf) / best_perf (1.0 when best_perf is 0) divided by
\* n_calls, and returns 1.0 iff it strictly exceeds 0.001, else 0.0.
C13_LRTRewardThreshold ==
    (bop.op = "reward" /\ bop.before.kind = "LRT") =>
        LET p   == bop.perf
            num == IF p.best_perf # 0 THEN p.cur_perf - p.best_perf ELSE 1
            den == (IF p.best_perf # 0 THEN p.best_perf ELSE 1) * p.n_calls
        IN  /\ ~bop.err
            /\ bop.reward = (IF RatGreater(num, den, 1, 1000) THEN RewardDen ELSE 0)

\* the knobs of the instance the last Normalizer call was made on
NormKnobs == Range(nzr.knob_names)

\* float x is below one half
BelowHalf(x) == 2 * x.n < x.d

\* floats x and y are the same number
SameFloat(x, y) == x.n * y.d = y.n * x.d

\* C14: denormalize(normalize({k: v}))[k] = v for every integer knob with
\* min < max and every integer v in [min, max], and for every boolean knob and
\* v in {min, max}.
C14_RoundTripExact ==
    (nzr.op = "denormalize" /\ nzr.prev_op = "normalize" /\ nzr.err = "") =>
        \A k \in NormKnobs :
            LET d == UnitKnobDict[k]
                v == nzr.prev_arg[k]
            IN  (\/ d.kind = "integer" /\ d.min < d.max /\ d.min <= v /\ v <= d.max
                 \/ d.kind = "boolean" /\ v \in {d.min, d.max})
                => nzr.res[k] = v

\* C15: a Normalizer call that breaks the contract raises an error and returns
\* nothing: denormalize on a vector whose length is not the knob count,
\* normalize on a config that misses a knob, that holds for a boolean knob a
\* value that is neither min nor max, or on an integer knob with max = min.
C15_ViolationsRaise ==
    LET raised == nzr.err # "" /\ DOMAIN nzr.res = {}
    IN  /\ (nzr.op = "denormalize" /\ Len(nzr.arg) # Len(nzr.knob_names)) => raised
        /\ nzr.op = "normalize" =>
             \A k \in NormKnobs :
                 LET d == UnitKnobDict[k]
                 IN  /\ k \notin DOMAIN nzr.arg => raised
                     /\ (d.kind = "boolean" /\ k \in DOMAIN nzr.arg
                         /\ nzr.arg[k] \notin {d.min, d.max}) => raised
                     /\ (d.kind = "integer" /\ d.max = d.min) => raised

\* C15 witness: normalize was called on a boolean knob holding 2 and raised
C15_BadBooleanRaised ==
    /\ nzr.op = "normalize"
    /\ nzr.knob_names = <<"B">>
    /\ "B" \in DOMAIN nzr.arg
    /\ nzr.arg["B"] = 2
    /\ nzr.err = "ValueError"

\* C16: for a boolean knob denormalize gives min below 0.5 and max from 0.5 on,
\* and normalize gives 0.0 for min and 1.0 for max; on the knobs A (integer,
\* [0, 100]) and B (boolean), [0.8, 0.2] denormalizes to {A: 80, B: OFF} and that
\* config normalizes to [0.8, 0.0].
C16_BooleanThreshold ==
    /\ (nzr.op = "denormalize" /\ nzr.err = "") =>
         /\ \A i \in DOMAIN nzr.knob_names :
                LET d == UnitKnobDict[nzr.knob_names[i]]
                IN  d.kind = "boolean" =>
                      nzr.res[nzr.knob_names[i]] =
                          IF BelowHalf(nzr.arg[i]) THEN d.min ELSE d.max
         /\ (nzr.knob_names = <<"A", "B">>
             /\ SameFloat(nzr.arg[1], FlRound(4, 5))
             /\ SameFloat(nzr.arg[2], FlRound(1, 5)))
            => nzr.res["A"] = 80 /\ nzr.res["B"] = 0
    /\ (nzr.op = "normalize" /\ nzr.err = "") =>
         /\ \A i \in DOMAIN nzr.knob_names :
                LET d == UnitKnobDict[nzr.knob_names[i]]
                    v == nzr.arg[nzr.knob_names[i]]
                IN  d.kind = "boolean" =>
                      /\ v = d.min => SameFloat(nzr.res[i], Rat(0, 1))
                      /\ (v = d.max /\ d.max # d.min) => SameFloat(nzr.res[i], Rat(1, 1))
         /\ (nzr.knob_names = <<"A", "B">> /\ nzr.arg["A"] = 80 /\ nzr.arg["B"] = 0)
            => SameFloat(nzr.res[1], FlRound(4, 5)) /\ SameFloat(nzr.res[2], Rat(0, 1))

\* C16 witness: [0.8, 0.2] was denormalized to {A: 80, B: OFF}, and that config
\* normalized
C16_ExampleFedBack ==
    /\ nzr.op = "normalize"
    /\ nzr.prev_op = "denormalize"
    /\ nzr.knob_names = <<"A", "B">>
    /\ Len(nzr.prev_arg) = 2
    /\ SameFloat(nzr.prev_arg[1], FlRound(4, 5))
    /\ SameFloat(nzr.prev_arg[2], FlRound(1, 5))
    /\ nzr.arg["A"] = 80
    /\ nzr.arg["B"] = 0
    /\ nzr.err = ""

\* C16 witness, the threshold: the float next below 0.5 gave min
C16_JustBelowHalf ==
    /\ nzr.op = "denormalize"
    /\ nzr.knob_names = <<"B">>
    /\ Len(nzr.arg) = 1
    /\ nzr.arg[1] = Rat(MantissaTop - 1, 2 * MantissaTop)
    /\ nzr.err = ""
    /\ nzr.res["B"] = 0

\* C17: the calls decide_calls hands to the optimizer in a round are at most
\* the budget that remains, and the calls counted over the rounds never exceed
\* the configured total.
C17_CallsWithinBudget ==
    /\ overall_iters <= total_iterations
    /\ pc = "optimize" => round.n_calls <= total_iterations - overall_iters

\* C17 witness: in a round after the first, decide_calls wanted more calls than
\* remained and the round got what remained
C17_LaterRoundCut ==
    /\ pc = "optimize"
    /\ overall_iters > 0
    /\ CallsWanted(x0.rows = 0, updated_knobs_num, Len(current_knobs), flags,
                   total_iterations - overall_iters) > total_iterations - overall_iters
    /\ round.n_calls = total_iterations - overall_iters

\* the arguments of the decide_calls call that set round
CallsRemaining == total_iterations - overall_iters

WarmStart == x0.rows > 0

CallsAdded == updated_knobs_num

CallsKnobs == Len(current_knobs)

\* the calls of a round under the flags that set them whatever the start:
\* is_incremental gives 25, else is_basic the remaining budget, else is_SE gives
\* 100 on a cold start and the remaining budget less 100 on a warm one, else
\* base; all capped at the remaining budget
CappedCalls(base) ==
    Min(CallsRemaining,
        IF flags.is_incremental = 1 THEN 25
        ELSE IF flags.is_basic = 1 THEN CallsRemaining
        ELSE IF flags.is_SE = 1
        THEN (IF WarmStart THEN CallsRemaining - 100 ELSE 100)
        ELSE base)

\* C18 as stated: on a warm start with added knobs the calls are a fixed number
\* of calls (10, or 5) per added knob, capped at the remaining budget.
C18_ScalesWithAdded ==
    (pc = "optimize" /\ WarmStart /\ CallsAdded >= 1) =>
        \E per_knob \in {5, 10} :
            round.n_calls = Min(CallsRemaining, per_knob * CallsAdded)

\* C18, amended: on a warm start with added knobs the calls are 5 per added
\* knob under is_super_low, else 10 per added knob under is_low, else 10 per
\* tuned knob; is_incremental, is_basic and is_SE set them as they do on every
\* start, and the remaining budget caps them.
C18_ScalesWithAddedUnderLow ==
    (pc = "optimize" /\ WarmStart /\ CallsAdded >= 1) =>
        round.n_calls = CappedCalls(IF flags.is_super_low = 1 THEN 5 * CallsAdded
                                    ELSE IF flags.is_low = 1 THEN 10 * CallsAdded
                                    ELSE 10 * CallsKnobs)

\* C18 witness: one knob added to a tuned set of three under is_low alone, and
\* the round gets 10 calls
C18_OneAddedUnderLow ==
    /\ pc = "optimize"
    /\ WarmStart
    /\ CallsAdded = 1
    /\ CallsKnobs = 3
    /\ flags = [NoFlags EXCEPT !.is_low = 1]
    /\ CallsRemaining > 30
    /\ round.n_calls = 10

\* C19 as stated: on a warm start with no added knob decide_calls returns 10
\* calls, capped at the remaining budget, and 0 initial points.
C19_FixedProbe ==
    (pc = "optimize" /\ WarmStart /\ CallsAdded = 0) =>
        /\ round.n_calls = Min(CallsRemaining, 10)
        /\ round.initial_pts = 0

\* C19, amended: on a warm start with no added knob decide_calls returns 0
\* initial points and 10 calls, unless is_incremental (25 calls), is_basic (the
\* remaining budget) or is_SE (the remaining budget less 100) is set; the
\* remaining budget caps them.
C19_FixedProbeUnlessOverridden ==
    (pc = "optimize" /\ WarmStart /\ CallsAdded = 0) =>
        /\ round.n_calls = CappedCalls(10)
        /\ round.initial_pts = 0

\* C19 witness: no knob added, no flag set, more than 10 calls remain, and the
\* round gets 10
C19_ProbeOfTen ==
    /\ pc = "optimize"
    /\ WarmStart
    /\ CallsAdded = 0
    /\ flags = NoFlags
    /\ CallsRemaining > 10
    /\ round.n_calls = 10
    /\ round.initial_pts = 0

OlapCall == pc = "olap" /\ olp.called /\ olp.queries # <<>>

\* the last execute_olap call sampled: 0 < budget_percent < 100
OlapSampled == OlapCall /\ 0 < olp.res.pct /\ olp.res.pct < 100

\* the last execute_olap call had no prior best
OlapNoBaseline == pc = "olap" /\ olp.called /\ olp.before.best_total_time = None

\* the units the last execute_olap call executed
OlapExecuted == olp.res.sampled \cup olp.res.full

\* C21: when 0 < budget_percent < 100, a prior best_total_time exists and the
\* estimate from the sample is at least best_total_time, execute_olap returns the
\* estimate, executes no unit but the sampled ones, and leaves best_total_time
\* and the best per-query times as they were
C21_ShortCircuit ==
    (OlapSampled /\ olp.before.best_total_time # None
                 /\ olp.res.est >= olp.before.best_total_time)
        => /\ olp.res.ret = olp.res.est
           /\ OlapExecuted = olp.res.sampled
           /\ driver.best_total_time = olp.before.best_total_time
           /\ driver.best_olap_times = olp.before.best_olap_times

\* a call whose estimate equals the prior best
C21_EstimateAtBaseline ==
    /\ OlapSampled
    /\ olp.before.best_total_time # None
    /\ olp.res.est = olp.before.best_total_time

\* C22: with no prior best, execute_olap executes every unit whatever the
\* budget_percent, returns the measured full time, and afterwards
\* best_total_time is that time and the best per-query times are this run's
C22_FirstRunIsFull ==
    OlapNoBaseline
        => /\ olp.res.full = DOMAIN olp.queries
           /\ olp.res.ret = olp.res.full_total
           /\ driver.best_total_time = olp.res.ret
           /\ driver.best_olap_times = olp.res.full_times

\* C22 on a script with at least one unit
C22_FirstRunIsFullWithUnits ==
    (OlapNoBaseline /\ olp.queries # <<>>)
        => /\ olp.res.full = DOMAIN olp.queries
           /\ olp.res.ret = olp.res.full_total
           /\ driver.best_total_time = olp.res.ret
           /\ driver.best_olap_times = olp.res.full_times

\* a first call that sampled
C22_FirstCallSampled == OlapNoBaseline /\ OlapSampled /\ olp.res.sampled # {}

\* C23: over the calls on one driver, best_total_time once set never goes up; it
\* and the best per-query times change only in a call that ran in full and
\* measured a total strictly below the prior best (or set the first), and then
\* both are replaced by that run's
C23_BaselineOnlyImproves ==
    (pc = "olap" /\ olp.called)
        => /\ olp.before.best_total_time # None
                => /\ driver.best_total_time # None
                   /\ driver.best_total_time <= olp.before.best_total_time
           /\ (\/ driver.best_total_time # olp.before.best_total_time
               \/ driver.best_olap_times # olp.before.best_olap_times)
                => /\ olp.queries # <<>>
                   /\ olp.res.full = DOMAIN olp.queries
                   /\ \/ olp.before.best_total_time = None
                      \/ olp.res.full_total < olp.before.best_total_time
                   /\ driver.best_total_time = olp.res.full_total
                   /\ driver.best_olap_times = olp.res.full_times

\* a later call that ran in full and lowered the baseline
C23_BaselineLowered ==
    /\ OlapCall
    /\ olp.before.best_total_time # None
    /\ olp.res.full = DOMAIN olp.queries
    /\ driver.best_total_time < olp.before.best_total_time

\* C24: when 0 < budget_percent < 100 and the script has N units, execute_olap
\* samples exactly max(1, round(N * budget_percent / 100)) distinct units, N *
\* budget_percent / 100 rounded to the nearest integer, and executes only those
\* before deciding
C24_SampleCountRounded ==
    OlapSampled
        => Cardinality(olp.res.sampled)
               = Max(1, RoundHalfEven(Len(olp.queries) * olp.res.pct, 100))

\* the units claimed of a script: a span runs from a CREATE VIEW to the first
\* DROP VIEW after it and is one unit of all its statements in order; every
\* other statement is a unit of its own
RECURSIVE SpanUnitsFrom(_, _, _)
SpanUnitsFrom(script, parts, i) ==
    IF i > Len(parts) THEN <<>>
    ELSE LET closing == {j \in i + 1..Len(parts) : script[parts[j]] = "drop"}
         IN  IF script[parts[i]] = "create" /\ closing # {}
             THEN LET j == CHOOSE c \in closing : \A d \in closing : c <= d
                  IN  <<SubSeq(parts, i, j)>> \o SpanUnitsFrom(script, parts, j + 1)
             ELSE <<<<parts[i]>>>> \o SpanUnitsFrom(script, parts, i + 1)

SpanUnits(script) == SpanUnitsFrom(script, PartsFrom(script, 1), 1)

\* C25: the parser makes one unit of every CREATE VIEW ... DROP VIEW span, holding
\* all the statements of the span in order, and a unit of its own of every
\* statement outside such a span
C25_SpansAreUnits ==
    (pc = "olap" /\ olp.called) => olp.queries = SpanUnits(olp.script)

\* the last step of the round was an evaluation
Evaluated == pc = "eval" /\ evl.last.kind = "eval"

C29_RowPerEvaluation ==
    Evaluated
        => /\ evl.rows = evl.last.rows_before + 1
           /\ evl.last.row.cfg = evl.last.config
           /\ \A k \in 1..NKnobs :
                  evl.last.row.cfg[k] =
                      IF \E i \in DOMAIN evl.knobs : evl.knobs[i] = k
                      THEN DenormalizeKnob(k, evl.last.x[CHOOSE i \in DOMAIN evl.knobs :
                                                              evl.knobs[i] = k])
                      ELSE IF k \in DOMAIN evl.frozen THEN evl.frozen[k]
                      ELSE full_knob_dict(k).default

\* an applied evaluation whose row holds a frozen value off the default and a
\* tuned value off the default
C29_FrozenAndTunedLogged ==
    /\ Evaluated /\ evl.last.applied
    /\ \E k \in DOMAIN evl.frozen :
           evl.frozen[k] # full_knob_dict(k).default /\ evl.last.row.cfg[k] = evl.frozen[k]
    /\ \E i \in DOMAIN evl.knobs :
           evl.last.row.cfg[evl.knobs[i]] # full_knob_dict(evl.knobs[i]).default

\* C27: after every round the reported best result is the observation of least
\* objective of the whole history, the rows of a prior log included, and the
\* reported best objective is never worse than after the round before
C27_BestIsLeastObservation ==
    (cyc.ran /\ cyc.err = "" /\ pc # "select") =>
        /\ best_result.set
        /\ best_result.tps = 0 - csv.best_y
        /\ best_result.cfg = csv.best_row
        /\ cyc.prev_best.set => best_result.tps >= cyc.prev_best.tps

\* C30: after a cycle the next round's tuned set holds no knob whose mask bit was
\* False; the knobs kept are in the order they had, the knobs added come after
C30_MaskedKnobsLeave ==
    (cyc.ran /\ cyc.err = "") =>
        /\ \A i \in DOMAIN utk.current :
               ~utk.mask[i] => utk.current[i] \notin Range(current_knobs)
        /\ Len(current_knobs) >= Len(KeptKnobs)
        /\ SubSeq(current_knobs, 1, Len(KeptKnobs)) = KeptKnobs
        /\ \A j \in Len(KeptKnobs) + 1..Len(current_knobs) :
               current_knobs[j] \notin Range(utk.current)

\* C28: at the start of every round the warm-start history is absent, or it has as
\* many vectors as objectives, every vector has one entry per knob of the tuned
\* set, and every entry lies in [0, 1]
C28_WarmStartWellFormed ==
    (pc = "load" /\ lod.called /\ ~lod.absent) =>
        /\ Len(lod.x0) = Len(lod.y0)
        /\ \A r \in DOMAIN lod.x0 :
               /\ Len(lod.x0[r]) = Len(lod.tuned)
               /\ \A i \in DOMAIN lod.x0[r] :
                      /\ lod.x0[r][i].n >= 0
                      /\ lod.x0[r][i].n <= lod.x0[r][i].d

\* the last cycle reached the point where its mask is assigned (lines 194-288):
\* every cycle but one whose selector() call raised
MaskAssigned ==
    cyc.ran /\ ~(Branch(flags) = "incremental" /\ cyc.err = "TypeError")

C32_MaskOfCall ==
    (pc = "mask" /\ ksl.calls >= 1) =>
        LET n == selector.n_features
            j == ksl.calls
            k == Min(ksl.initial + (j - 1) * selector.step, n)
        IN  /\ ksl.mask = [i \in 1..n |-> i <= k]
            /\ \A c \in 1..(j - 1) :
                   /\ ksl.counts[c] <= ksl.counts[c + 1]
                   /\ ksl.counts[c] = n => ksl.counts[c + 1] = n

\* C32, its case: a third call that reaches n features after two calls that
\* returned fewer, each more than the one before.
C32_ReachedAll ==
    /\ pc = "mask"
    /\ ksl.calls = 3
    /\ ksl.counts[1] < ksl.counts[2]
    /\ ksl.counts[2] < ksl.counts[3]
    /\ ksl.counts[3] = selector.n_features
    /\ ksl.initial + 2 * selector.step > selector.n_features

\* the samples of a column at or below its median, counted from the sorted
\* column: those not above its middle entry (the mean of its two middle entries)
AtOrBelowMedian(vals) ==
    LET n == Len(vals)
        above(m2) == {i \in DOMAIN vals : 2 * vals[i] > m2}
    IN  DOMAIN vals \ { i \in DOMAIN vals :
            \E lo \in Range(vals), hi \in Range(vals) :
                /\ lo <= hi
                /\ Cardinality({j \in DOMAIN vals : vals[j] < lo}) <= (n - 1) \div 2
                /\ Cardinality({j \in DOMAIN vals : vals[j] > lo}) <= n \div 2
                /\ Cardinality({j \in DOMAIN vals : vals[j] < hi}) <= n \div 2
                /\ Cardinality({j \in DOMAIN vals : vals[j] > hi}) <= (n - 1) \div 2
                /\ i \in above(lo + hi) }

\* C33: under elimination by significance, a knob whose median split leaves
\* fewer than 2 observations in the low (<= median) or the high (> median) group
\* is marked important and no test is run on it; a knob whose observed values
\* are all equal is always kept.
C33_SmallGroupKept ==
    (pc = "SE" /\ ksl.calls = 1) =>
        \A k \in DOMAIN ksl.X :
            LET vals == ksl.X[k]
                low  == Cardinality(AtOrBelowMedian(vals))
                high == Len(vals) - low
            IN  /\ (low < 2 \/ high < 2) => (ksl.mask[k] /\ k \notin ksl.tested)
                /\ (\A i \in DOMAIN vals : vals[i] = vals[1]) => ksl.mask[k]

\* C33, its case: of two knobs over four observations, one with three at or
\* below the median and one above is kept untested, while the other, split two
\* and two, is tested and dropped.
C33_OneAboveMedian ==
    /\ pc = "SE"
    /\ ksl.calls = 1
    /\ Len(ksl.X) = 2
    /\ ksl.X[1] = <<0, 0, 0, 2>>
    /\ ksl.mask[1]
    /\ 1 \notin ksl.tested
    /\ 2 \in ksl.tested
    /\ ~ksl.mask[2]

\* C34: when the round log is re-read and the configuration of a row violates
\* the Normalizer contract for the tuned knobs, the load surfaces the violation
\* as an error instead of putting a substitute vector in the row's place.
C34_ViolationSurfaced ==
    (pc = "load" /\ lod.called /\ lod.raised # {}) => lod.err # ""

\* C35: at every round boundary the tuned set and the keys of frozen_values are
\* disjoint, and every knob that was frozen before the last cycle is still
\* frozen after it, at the same value, and is not in the tuned set.
C35_FrozenStaysFrozen ==
    /\ Range(current_knobs) \cap DOMAIN frozen_values = {}
    /\ cyc.ran =>
          \A k \in DOMAIN cyc.prev_frozen :
              /\ k \in DOMAIN frozen_values
              /\ frozen_values[k] = cyc.prev_frozen[k]
              /\ k \notin Range(current_knobs)

\* C35, its case: a cycle that started with a knob frozen, dropped another knob
\* and asked for more knobs than it kept while the only knobs outside the tuned
\* set were frozen ones.
C35_OnlyFrozenLeft ==
    /\ cyc.ran
    /\ cyc.err = ""
    /\ DOMAIN cyc.prev_frozen # {}
    /\ utk.called
    /\ utk.current = cyc.prev_knobs
    /\ utk.updated
    /\ DOMAIN frozen_values # DOMAIN cyc.prev_frozen
    /\ ElementToTune(Len(utk.current), utk.mask, utk.f, utk.bandit_choice)
          > Len(Retained(utk.current, utk.mask))
    /\ Range(utk.current) \cup utk.frozen_keys = 1..NKnobs

\* C36: TwoActionLRT.reward(cur_perf, best_perf, n_calls) with n_calls >= 1
\* returns 1.0 only if cur_perf > best_perf, whatever the sign of best_perf.
C36_RewardOnlyOnImprovement ==
    (bop.op = "reward" /\ bop.before.kind = "LRT" /\ bop.perf.n_calls >= 1
     /\ bop.reward = RewardDen)
        => bop.perf.cur_perf > bop.perf.best_perf

\* C37: under the default policy, whenever every current knob is marked
\* important and at least one unused knob remains in the dictionary, the tuned
\* set returned is strictly larger than the current one, for every current
\* size >= 1.
C37_AllImportantGrows ==
    (utk.called /\ DefaultPolicyCall /\ Len(utk.current) >= 1 /\ AllImportant
     /\ UnusedKeys # {})
        => Len(utk.new_list) > Len(utk.current)

\* the statements of a list of units, one after the other
RECURSIVE StatementsOf(_)
StatementsOf(units) ==
    IF units = <<>> THEN <<>> ELSE Head(units) \o StatementsOf(Tail(units))

\* C38: the script parser of execute_olap loses no statement: every non-empty
\* statement of the script is in exactly one unit, in script order, for every
\* script, one with an unclosed CREATE VIEW or with a second CREATE VIEW inside
\* an open span included.
C38_NoStatementLost ==
    (pc = "olap" /\ olp.called) =>
        StatementsOf(olp.queries) = PartsFrom(olp.script, 1)

====
